---- MODULE Spec2Model ----
(***************************************************************************)
(* Numerical integration calculator: the quadrature rules of               *)
(* IntegrationMethods.jsx and the calculator component that drives them    *)
(* (NumericalIntegrationCalculator, ControlPanel).                         *)
(*                                                                         *)
(* JavaScript numbers are modelled in exact arithmetic: a number is a pair *)
(* <<n, d>> with d >= 0.  d > 0 is the rational n/d in lowest terms,       *)
(* <<1, 0>> is Infinity, <<-1, 0>> is -Infinity and <<0, 0>> is NaN, so    *)
(* that 0/0, x/0 and Infinity - Infinity behave as they do in the code.    *)
(* Rounding is not modelled.                                               *)
(***************************************************************************)
EXTENDS Integers, Sequences, FiniteSets, TLC

\* ------------------------------------------------------------------------
\* Bounds of the model
\* ------------------------------------------------------------------------

\* largest interval count n handed to a rule in SpecRules
MaxN == 6

\* number of user actions (edits, toggles, clicks) in one run of Spec
MaxSteps == 3

\* largest interval count the slider is moved to in Spec
MaxIntervals == 3

\* number of distinct values Math.random() takes
RandomPeriod == 2

\* steps of the grid the derivative estimators scan (the code divides [a, b] by 1000)
GridSteps == 6

\* steps of the grid of SimpsonsRule1By3.estimateSecondDerivative (the code
\* divides [a, b] by 100)
CoarseGridSteps == 4

\* ------------------------------------------------------------------------
\* Numbers
\* ------------------------------------------------------------------------

AbsInt(i) == IF i < 0 THEN -i ELSE i

SgnInt(i) == IF i < 0 THEN -1 ELSE IF i > 0 THEN 1 ELSE 0

RECURSIVE GCD(_, _)
GCD(x, y) == IF y = 0 THEN x ELSE GCD(y, x % y)

\* <<n, d>> in lowest terms; d = 0 keeps only the sign (Infinity, -Infinity, NaN)
Norm(n, d) ==
  IF d = 0 THEN <<SgnInt(n), 0>>
  ELSE LET g == GCD(AbsInt(n), d) IN <<n \div g, d \div g>>

NaN == <<0, 0>>
Infinity == <<1, 0>>
Zero == <<0, 1>>
Num(i) == <<i, 1>>
Frac(n, d) == Norm(n, d)

IsNaN(x) == x = NaN
isFinite(x) == x[2] > 0

\* x + y (Infinity + -Infinity and anything with NaN are NaN)
Add(x, y) ==
  IF x[2] = 0 \/ y[2] = 0
  THEN Norm(x[1] * y[2] + y[1] * x[2], 0)
  ELSE LET g == GCD(x[2], y[2])
           l == (x[2] \div g) * y[2]
       IN Norm(x[1] * (l \div x[2]) + y[1] * (l \div y[2]), l)

Neg(x) == <<-x[1], x[2]>>

Sub(x, y) == Add(x, Neg(y))

\* x * y (Infinity * 0 is NaN)
Mul(x, y) ==
  IF x[2] = 0 \/ y[2] = 0
  THEN Norm(SgnInt(x[1]) * SgnInt(y[1]), 0)
  ELSE LET g1 == GCD(AbsInt(x[1]), y[2])
           g2 == GCD(AbsInt(y[1]), x[2])
       IN <<(x[1] \div g1) * (y[1] \div g2), (x[2] \div g2) * (y[2] \div g1)>>

\* x / y (0/0 is NaN, x/0 is +-Infinity, x/Infinity is 0; -0 is not modelled)
Div(x, y) ==
  IF IsNaN(x) \/ IsNaN(y) THEN NaN
  ELSE IF y[2] = 0
       THEN IF x[2] = 0 THEN NaN ELSE Zero
  ELSE IF y[1] = 0 THEN <<SgnInt(x[1]), 0>>
  ELSE Mul(x, <<SgnInt(y[1]) * y[2], AbsInt(y[1])>>)

\* Math.abs
Abs(x) == <<AbsInt(x[1]), x[2]>>

\* x < y on numbers; false when either is NaN
Less(x, y) ==
  /\ ~IsNaN(x) /\ ~IsNaN(y)
  /\ IF x[2] = 0 /\ y[2] = 0 THEN x[1] < y[1]
     ELSE IF x[2] = 0 THEN x[1] < 0
     ELSE IF y[2] = 0 THEN y[1] > 0
     ELSE x[1] * y[2] < y[1] * x[2]

\* JavaScript truthiness of a number: 0 and NaN are falsy
Truthy(x) == x[1] # 0

\* Math.pow(x, k) for a natural k
RECURSIVE Pow(_, _)
Pow(x, k) == IF k = 0 THEN Num(1) ELSE Mul(x, Pow(x, k - 1))

\* terms[lo] + ... + terms[hi].  Exact addition is associative (also with
\* Infinity and NaN among the terms), so a loop `sum += term(i)` ends with its
\* initial value plus this sum; the range is halved to keep the evaluation shallow.
RECURSIVE SumRange(_, _, _)
SumRange(terms, lo, hi) ==
  IF lo > hi THEN Zero
  ELSE IF lo = hi THEN terms[lo]
  ELSE LET mid == (lo + hi) \div 2
       IN Add(SumRange(terms, lo, mid), SumRange(terms, mid + 1, hi))

Sum(terms) == SumRange(terms, 1, Len(terms))

\* the iterations i = 1, 2, ... of a loop `for (i = 1; i <= k; i++)`: none when k < 1
Iterations(k) == 1..(IF k < 0 THEN 0 ELSE k)

\* null / undefined
Null == <<>>

\* ------------------------------------------------------------------------
\* Callables handed to the rules
\* ------------------------------------------------------------------------

\* predefinedFunctions entries whose values are rational
PredefinedKeys == {"x^2", "x^3", "1/x"}

\* callables `new Function('x', 'return ' + text)` builds from accepted custom
\* text: a constant, and one that raises a ReferenceError for x > 1
CustomTexts == {"3", "x>1?y:1"}

\* func(x) raises
Throws(func, x) == func = "x>1?y:1" /\ Less(Num(1), x)

\* func(x), when it does not raise
Apply(func, x) ==
  CASE func = "x^2" -> Mul(x, x)
    [] func = "x^3" -> Mul(Mul(x, x), x)
    [] func = "1/x" -> Div(Num(1), x)
    [] func = "3" -> Num(3)
    [] func = "x>1?y:1" -> Num(1)

\* predefinedFunctions[key].exact(a, b), for the polynomial entries
exact(key, a, b) ==
  CASE key = "x^2" -> Div(Sub(Pow(b, 3), Pow(a, 3)), Num(3))
    [] key = "x^3" -> Div(Sub(Pow(b, 4), Pow(a, 4)), Num(4))

\* ------------------------------------------------------------------------
\* Outcome of a call of integrate: the value returned or the error raised,
\* and the number of calls of func it made (the raising call included)
\* ------------------------------------------------------------------------

Returned(v, evals) == [err |-> "", value |-> v, evals |-> evals]

Raised(msg, evals) == [err |-> msg, value |-> NaN, evals |-> evals]

\* message of the error a raising callable throws
EvalErrorMsg == "y is not defined"

\* index of the first node at which func raises, 0 if none
FirstThrow(func, nodes) ==
  IF \E i \in 1..Len(nodes) : Throws(func, nodes[i])
  THEN CHOOSE i \in 1..Len(nodes) :
         /\ Throws(func, nodes[i])
         /\ \A j \in 1..(i - 1) : ~Throws(func, nodes[j])
  ELSE 0

\* a + i*h
Node(a, i, h) == Add(a, Mul(Num(i), h))

\* ------------------------------------------------------------------------
\* TrapezoidalRule
\* ------------------------------------------------------------------------

\* for (let i = 1; i < n; i++) sum += func(a + i * h)
TrapezoidalLoop(func, a, h, n, sum) ==
  Add(sum, Sum([i \in Iterations(n - 1) |-> Apply(func, Node(a, i, h))]))

\* the points at which integrate calls func, in call order
TrapezoidalNodes(a, b, n) ==
  LET h == Div(Sub(b, a), Num(n))
  IN <<a, b>> \o [i \in Iterations(n - 1) |-> Node(a, i, h)]

TrapezoidalValue(func, a, b, n) ==
  LET h == Div(Sub(b, a), Num(n))
      sum == Div(Add(Apply(func, a), Apply(func, b)), Num(2))
  IN Mul(TrapezoidalLoop(func, a, h, n, sum), h)

TrapezoidalIntegrate(func, a, b, n) ==
  LET nodes == TrapezoidalNodes(a, b, n)
      t == FirstThrow(func, nodes)
  IN IF t > 0 THEN Raised(EvalErrorMsg, t)
     ELSE Returned(TrapezoidalValue(func, a, b, n), Len(nodes))

\* ------------------------------------------------------------------------
\* SimpsonsRule1By3
\* ------------------------------------------------------------------------

\* for (let i = 1; i < n; i++) sum += (i % 2 === 0 ? 2 : 4) * func(a + i * h)
simpsonRuleLoop(func, a, h, n, sum) ==
  Add(sum, Sum([i \in Iterations(n - 1) |->
                  Mul(Num(IF i % 2 = 0 THEN 2 ELSE 4), Apply(func, Node(a, i, h)))]))

simpsonRuleNodes(a, b, n) ==
  LET h == Div(Sub(b, a), Num(n))
  IN <<a, b>> \o [i \in Iterations(n - 1) |-> Node(a, i, h)]

\* simpsonRule with the weights 4 and 2 exchanged
simpsonRuleSwappedWeights(func, a, b, n) ==
  LET h == Div(Sub(b, a), Num(n))
      sum == Add(Apply(func, a), Apply(func, b))
  IN Div(Mul(Add(sum, Sum([i \in Iterations(n - 1) |->
                             Mul(Num(IF i % 2 = 0 THEN 4 ELSE 2),
                                 Apply(func, Node(a, i, h)))])), h), Num(3))

simpsonRule(func, a, b, n) ==
  LET h == Div(Sub(b, a), Num(n))
      sum == Add(Apply(func, a), Apply(func, b))
  IN Div(Mul(simpsonRuleLoop(func, a, h, n, sum), h), Num(3))

Simpson13Nodes(a, b, n) ==
  IF n % 2 = 0 THEN simpsonRuleNodes(a, b, n)
  ELSE LET h == Div(Sub(b, a), Num(n))
           splitPoint == Sub(b, h)
       IN simpsonRuleNodes(a, splitPoint, n - 1) \o <<splitPoint, b>>

\* integrate without the branch for odd n
Simpson13ValueEvenOnly(func, a, b, n) == simpsonRule(func, a, b, n)

Simpson13Value(func, a, b, n) ==
  IF n % 2 = 0 THEN simpsonRule(func, a, b, n)
  ELSE LET h == Div(Sub(b, a), Num(n))
           splitPoint == Sub(b, h)
           simpsonPart == simpsonRule(func, a, splitPoint, n - 1)
           trapPart == Mul(Div(h, Num(2)), Add(Apply(func, splitPoint), Apply(func, b)))
       IN Add(simpsonPart, trapPart)

Simpson13Integrate(func, a, b, n) ==
  LET nodes == Simpson13Nodes(a, b, n)
      t == FirstThrow(func, nodes)
  IN IF t > 0 THEN Raised(EvalErrorMsg, t)
     ELSE Returned(Simpson13Value(func, a, b, n), Len(nodes))

\* ------------------------------------------------------------------------
\* MidpointRule
\* ------------------------------------------------------------------------

\* a + (i + 0.5) * h
Midpoint(a, i, h) == Add(a, Mul(Add(Num(i), Frac(1, 2)), h))

\* for (let i = 0; i < n; i++) sum += func(a + (i + 0.5) * h)
MidpointLoop(func, a, h, n, sum) ==
  Add(sum, Sum([k \in Iterations(n) |-> Apply(func, Midpoint(a, k - 1, h))]))

MidpointNodes(a, b, n) ==
  LET h == Div(Sub(b, a), Num(n))
  IN [i \in Iterations(n) |-> Midpoint(a, i - 1, h)]

MidpointValue(func, a, b, n) ==
  LET h == Div(Sub(b, a), Num(n))
  IN Mul(MidpointLoop(func, a, h, n, Zero), h)

MidpointIntegrate(func, a, b, n) ==
  LET nodes == MidpointNodes(a, b, n)
      t == FirstThrow(func, nodes)
  IN IF t > 0 THEN Raised(EvalErrorMsg, t)
     ELSE Returned(MidpointValue(func, a, b, n), Len(nodes))

\* ------------------------------------------------------------------------
\* SimpsonsRule3By8
\* ------------------------------------------------------------------------

Simpson38ErrorMsg == "Simpson's 3/8 rule requires at least 3 intervals."

\* the main loop with the weights 3 and 2 exchanged
Simpson38MainLoopSwappedWeights(func, a, h, mainN, sum) ==
  Add(sum, Sum([i \in Iterations(mainN - 1) |->
                  Mul(Num(IF i % 3 = 0 THEN 3 ELSE 2), Apply(func, Node(a, i, h)))]))

\* for (let i = 1; i < mainN; i++) sum += (i % 3 === 0 ? 2 : 3) * func(a + i * h)
Simpson38MainLoop(func, a, h, mainN, sum) ==
  Add(sum, Sum([i \in Iterations(mainN - 1) |->
                  Mul(Num(IF i % 3 = 0 THEN 2 ELSE 3), Apply(func, Node(a, i, h)))]))

\* for (let i = 1; i < remainder; i++) remSum += func(remA + i * h)
Simpson38RemLoop(func, remA, h, remainder, remSum) ==
  Add(remSum, Sum([i \in Iterations(remainder - 1) |-> Apply(func, Node(remA, i, h))]))

Simpson38Nodes(a, b, n) ==
  LET remainder == n % 3
      h == Div(Sub(b, a), Num(n))
      mainN == n - remainder
      remA == Node(a, mainN, h)
      main == IF mainN >= 3
              THEN <<a, Node(a, mainN, h)>> \o [i \in Iterations(mainN - 1) |-> Node(a, i, h)]
              ELSE <<>>
      rem == IF remainder > 0
             THEN <<remA, b>> \o [i \in Iterations(remainder - 1) |-> Node(remA, i, h)]
             ELSE <<>>
  IN main \o rem

\* integrate without the trapezoidal sum over the remaining subintervals
Simpson38ValueNoRemainder(func, a, b, n) ==
  LET remainder == n % 3
      h == Div(Sub(b, a), Num(n))
      mainN == n - remainder
      sum == Add(Apply(func, a), Apply(func, Node(a, mainN, h)))
  IN Mul(Div(Mul(Num(3), h), Num(8)), Simpson38MainLoop(func, a, h, mainN, sum))

Simpson38Value(func, a, b, n) ==
  LET remainder == n % 3
      h == Div(Sub(b, a), Num(n))
      mainN == n - remainder
      mainPart ==
        IF mainN >= 3
        THEN LET sum == Add(Apply(func, a), Apply(func, Node(a, mainN, h)))
             IN Mul(Div(Mul(Num(3), h), Num(8)), Simpson38MainLoop(func, a, h, mainN, sum))
        ELSE Zero
      remPart ==
        IF remainder > 0
        THEN LET remA == Node(a, mainN, h)
                 remB == b
                 remSum == Div(Add(Apply(func, remA), Apply(func, remB)), Num(2))
             IN Mul(Simpson38RemLoop(func, remA, h, remainder, remSum), h)
        ELSE Zero
  IN Add(mainPart, remPart)

\* integrate with the check of n made after func has been sampled
Simpson38IntegrateLateCheck(func, a, b, n) ==
  LET nodes == Simpson38Nodes(a, b, n)
      t == FirstThrow(func, nodes)
  IN IF t > 0 THEN Raised(EvalErrorMsg, t)
     ELSE IF n < 3 THEN Raised(Simpson38ErrorMsg, Len(nodes))
     ELSE Returned(Simpson38Value(func, a, b, n), Len(nodes))

Simpson38Integrate(func, a, b, n) ==
  IF n < 3 THEN Raised(Simpson38ErrorMsg, 0)
  ELSE LET nodes == Simpson38Nodes(a, b, n)
           t == FirstThrow(func, nodes)
       IN IF t > 0 THEN Raised(EvalErrorMsg, t)
          ELSE Returned(Simpson38Value(func, a, b, n), Len(nodes))

\* ------------------------------------------------------------------------
\* MonteCarloIntegration
\* ------------------------------------------------------------------------

\* Math.random(): the k-th draw of a run of draws started from `seed`, in [0, 1)
Random(seed, k) == Frac((seed + k) % RandomPeriod, RandomPeriod)

Seeds == 0..(RandomPeriod - 1)

\* x = a + Math.random() * (b - a) for the i-th sample, after `offset` earlier draws
MonteCarloX(a, b, seed, offset, i) == Add(a, Mul(Random(seed, offset + i), Sub(b, a)))

MonteCarloNodes(a, b, n, seed, offset) ==
  [i \in Iterations(n) |-> MonteCarloX(a, b, seed, offset, i)]

\* samples.push({ x, y })
MonteCarloSamples(func, a, b, n, seed, offset) ==
  [i \in Iterations(n) |->
     LET x == MonteCarloX(a, b, seed, offset, i) IN [x |-> x, y |-> Apply(func, x)]]

\* (sum / n) * (b - a)
MonteCarloValue(samples, a, b, n) ==
  Mul(Div(Sum([i \in 1..Len(samples) |-> samples[i].y]), Num(n)), Sub(b, a))

\* integrate; `samples` is what the call leaves in this.lastSamples
MonteCarloIntegrate(func, a, b, n, seed, offset, lastSamples0) ==
  LET nodes == MonteCarloNodes(a, b, n, seed, offset)
      t == FirstThrow(func, nodes)
      samples == MonteCarloSamples(func, a, b, n, seed, offset)
  IN IF t > 0
     THEN [err |-> EvalErrorMsg, value |-> NaN, evals |-> t, samples |-> lastSamples0]
     ELSE [err |-> "", value |-> MonteCarloValue(samples, a, b, n),
           evals |-> Len(nodes), samples |-> samples]

\* getErrorEstimate: 1.96 * Math.sqrt(variance / n) * (b - a); the square root is
\* kept as a term over the exact variance / n
MonteCarloErrorEstimate(lastSamples0, a, b, n) ==
  IF lastSamples0 = Null THEN Null
  ELSE LET k == Len(lastSamples0)
           mean == Div(Sum([i \in 1..k |-> lastSamples0[i].y]), Num(n))
           variance == Div(Sum([i \in 1..k |-> Pow(Sub(lastSamples0[i].y, mean), 2)]),
                           Num(n - 1))
       IN [estimate |-> "1.96 * sqrt(radicand) * width",
           radicand |-> Div(variance, Num(n)), width |-> Sub(b, a)]

\* ------------------------------------------------------------------------
\* The registry and the calls made through it
\* ------------------------------------------------------------------------

integrationMethods ==
  <<"Trapezoidal Rule", "Simpson's 1/3", "Simpson's 3/8", "Monte Carlo">>

MethodNames == {integrationMethods[i] : i \in 1..Len(integrationMethods)}

\* method.color
Color(method) ==
  CASE method = "Trapezoidal Rule" -> "#3b82f6"
    [] method = "Simpson's 1/3" -> "#ef4444"
    [] method = "Simpson's 3/8" -> "#a21caf"
    [] method = "Monte Carlo" -> "#f59e0b"

\* min of the interval slider
SliderMin == 2

\* initial value of `intervals`
InitialIntervals == 10

\* the convergence sweep: for (let n = 2; n <= 50; n += 2)
ConvergenceFirst == 2
ConvergenceLast == 50
ConvergenceStep == 2

\* options of the function dropdown the model selects
SelectableFunctions == {"x^2", "x^3"}

\* texts typed into the custom-function input: one that parses, one that fails
RawChoices == {"3", "y"}

\* the callables currentFunc can be: the selectable predefined functions and
\* the custom callable
ActiveFunctions == SelectableFunctions \cup {"3"}

\* values typed into the limit inputs
LimitChoices == {-2, 1}

\* values the interval slider is moved to
IntervalChoices == SliderMin..MaxIntervals

\* number of iterations of `for (let n = 2; n <= 50; n += 2)`
ConvergencePoints == (ConvergenceLast - ConvergenceFirst) \div ConvergenceStep + 1

\* the interval counts of the sweep
ConvergenceCounts ==
  {ConvergenceFirst + (k - 1) * ConvergenceStep : k \in 1..ConvergencePoints}

\* integrate of a deterministic method
DeterministicIntegrate(method, func, a, b, n) ==
  CASE method = "Trapezoidal Rule" -> TrapezoidalIntegrate(func, a, b, n)
    [] method = "Simpson's 1/3" -> Simpson13Integrate(func, a, b, n)
    [] method = "Simpson's 3/8" -> Simpson38Integrate(func, a, b, n)

\* method.integrate(func, a, b, n); the record also carries the samples the
\* Monte Carlo instance holds afterwards
Integrate(method, func, a, b, n, seed, offset, lastSamples0) ==
  IF method = "Monte Carlo"
  THEN MonteCarloIntegrate(func, a, b, n, seed, offset, lastSamples0)
  ELSE [samples |-> lastSamples0] @@ DeterministicIntegrate(method, func, a, b, n)

\* limits the calculator can hold
SweepLimits == {Num(l) : l \in LimitChoices \cup {0, 2}}

\* the function f with all its values evaluated, so that none is evaluated twice
Tabulated(f) == f @@ <<>>

\* The integrate calls generateConvergenceData makes, each evaluated once: the
\* calculator's functions and limits at every interval count of the sweep.
DeterministicSweep ==
  Tabulated([k \in {t \in (MethodNames \ {"Monte Carlo"}) \X ActiveFunctions \X SweepLimits
                  \X SweepLimits \X ConvergenceCounts : Less(t[3], t[4])} |->
     DeterministicIntegrate(k[1], k[2], k[3], k[4], k[5])])

\* Random(seed, offset + i) = Random((seed + offset) % RandomPeriod, i): a call
\* after `offset` draws is the call after none with the seed moved on
MonteCarloSweep ==
  Tabulated([k \in {t \in ActiveFunctions \X SweepLimits \X SweepLimits
                  \X ConvergenceCounts \X Seeds : Less(t[2], t[3])} |->
     MonteCarloIntegrate(k[1], k[2], k[3], k[4], k[5], 0, Null)])

\* a Monte Carlo outcome r of the table, for an instance that held lastSamples0
WithSamples(r, lastSamples0) ==
  IF r.err = "" THEN r ELSE [r EXCEPT !.samples = lastSamples0]

\* method.integrate(currentFunc, lowerLimit, upperLimit, n) in generateConvergenceData
SweepIntegrate(method, func, a, b, n, seed, offset, lastSamples0) ==
  IF method = "Monte Carlo"
  THEN WithSamples(MonteCarloSweep[<<func, a, b, n, (seed + offset) % RandomPeriod>>],
                   lastSamples0)
  ELSE [samples |-> lastSamples0] @@ DeterministicSweep[<<method, func, a, b, n>>]

\* method.getErrorEstimate(func, a, b, n).  The derivative-based bounds are kept
\* as the call that determines them; Simpson's 3/8 inherits `return null`
GetErrorEstimate(method, func, a, b, n, lastSamples0) ==
  CASE method = "Monte Carlo" -> MonteCarloErrorEstimate(lastSamples0, a, b, n)
    [] method = "Simpson's 3/8" -> Null
    [] method = "Trapezoidal Rule" ->
         [estimate |-> "TrapezoidalRule.getErrorEstimate",
          func |-> func, a |-> a, b |-> b, n |-> n]
    [] method = "Simpson's 1/3" ->
         [estimate |-> "SimpsonsRule1By3.getErrorEstimate",
          func |-> func, a |-> a, b |-> b, n |-> n]

\* ------------------------------------------------------------------------
\* State
\* ------------------------------------------------------------------------

VARIABLES
  selectedFunction,    \* useState('x^2'): key of the predefined function
  customFunction,      \* useState(''): processed custom text in use, '' if none
  lowerLimit,          \* useState(0)
  upperLimit,          \* useState(2)
  intervals,           \* useState(10)
  selectedMethods,     \* useState(['Trapezoidal Rule']): names, in selection order
  rawFunction,         \* useState(''): text of the custom-function input
  processedFunction,   \* useState(null): "" stands for null (the text is never empty)
  functionError,       \* useState('')
  shouldCalculate,     \* useState(true)
  calculationResults,  \* useState([])
  convergenceData,     \* useState([])
  timers,              \* pending setTimeout callbacks, oldest first, each with the
                       \* state its render closed over
  lastSamples,         \* this.lastSamples of the registry's MonteCarloIntegration
  steps,               \* user actions so far
  args,                \* SpecRules: the arguments (func, a, b, n) handed to a rule
  outcome              \* SpecRules: the last integrate call and what it gave

calcVars ==
  <<selectedFunction, customFunction, lowerLimit, upperLimit, intervals,
    selectedMethods, rawFunction, processedFunction, functionError,
    shouldCalculate, calculationResults, convergenceData, timers, steps>>

ruleVars == <<args, outcome>>

vars == <<calcVars, lastSamples, ruleVars>>

\* no integrate call made yet
NoCall == [rule |-> "", err |-> "", value |-> NaN, evals |-> 0]

\* ------------------------------------------------------------------------
\* NumericalIntegrationCalculator
\* ------------------------------------------------------------------------

Range(seq) == {seq[i] : i \in 1..Len(seq)}

\* currentFunc: the custom callable when one is in use, else the predefined one
currentFunc(selected, custom, fnError) ==
  IF custom # "" /\ fnError = "" THEN custom ELSE selected

\* predefinedFunctions[selectedFunction] && !customFunction ? ...exact(a, b) : null
ExactValue(selected, custom, a, b) ==
  IF custom = "" THEN exact(selected, Num(a), Num(b)) ELSE Null

\* exactValue ? Math.abs(value - exactValue) : null
AbsoluteError(value, exactValue) ==
  IF exactValue # Null /\ Truthy(exactValue) THEN Abs(Sub(value, exactValue)) ELSE Null

\* exactValue ? Math.abs((value - exactValue) / exactValue) * 100 : null
RelativeError(value, exactValue) ==
  IF exactValue # Null /\ Truthy(exactValue)
  THEN Mul(Abs(Div(Sub(value, exactValue), exactValue)), Num(100))
  ELSE Null

\* a catch branch that reports the failure but keeps a value of 0
FailureRecordZeroValue(method, message) ==
  [method |-> method, value |-> Zero, color |-> Color(method), error |-> Null,
   errorEstimate |-> Null, relativeError |-> Null, calculationError |-> message]

\* the record the catch branch of the map callback returns
FailureRecord(method, message) ==
  [method |-> method, value |-> NaN, color |-> Color(method), error |-> Null,
   errorEstimate |-> Null, relativeError |-> Null, calculationError |-> message]

\* the map callback reading, for errorEstimate, the samples the instance held
\* before the integrate call of this callback
RuleResultFromEarlierSamples(method, r, func, exactValue, a, b, n) ==
  IF r.err = ""
  THEN [method |-> method, value |-> r.value, color |-> Color(method),
        error |-> AbsoluteError(r.value, exactValue),
        errorEstimate |-> GetErrorEstimate(method, func, Num(a), Num(b), n, lastSamples),
        relativeError |-> RelativeError(r.value, exactValue),
        calculationError |-> ""]
  ELSE FailureRecord(method, r.err)

\* the map callback of performCalculations for one method: r is the outcome of
\* method.integrate.  calculationError is "" where the record has no such field
RuleResult(method, r, func, exactValue, a, b, n) ==
  IF r.err = ""
  THEN [method |-> method, value |-> r.value, color |-> Color(method),
        error |-> AbsoluteError(r.value, exactValue),
        errorEstimate |-> GetErrorEstimate(method, func, Num(a), Num(b), n, r.samples),
        relativeError |-> RelativeError(r.value, exactValue),
        calculationError |-> ""]
  ELSE FailureRecord(method, r.err)

\* the selected methods in the order of their selection
FilterSelectedInSelectionOrder(selected) ==
  SelectSeq(selected, LAMBDA m : m \in {integrationMethods[i] : i \in 1..Len(integrationMethods)})

\* integrationMethods.filter(method => selectedMethods.includes(method.name))
FilterSelected(selected) ==
  SelectSeq(integrationMethods, LAMBDA m : m \in Range(selected))

\* results when the failure of one method ends the whole batch
ResultsAbort(selected, func, exactValue, a, b, n, seed, lastSamples0) ==
  LET methods == FilterSelected(selected)
      out == [i \in 1..Len(methods) |->
                Integrate(methods[i], func, Num(a), Num(b), n, seed, 0, lastSamples0)]
  IN IF \E i \in 1..Len(methods) : out[i].err # "" THEN <<>>
     ELSE [i \in 1..Len(methods) |->
             RuleResult(methods[i], out[i], func, exactValue, a, b, n)]

\* results of performCalculations
Results(selected, func, exactValue, a, b, n, seed, lastSamples0) ==
  LET methods == FilterSelected(selected)
  IN [i \in 1..Len(methods) |->
        RuleResult(methods[i],
                   Integrate(methods[i], func, Num(a), Num(b), n, seed, 0, lastSamples0),
                   func, exactValue, a, b, n)]

\* this.lastSamples after the integrate calls of performCalculations
SamplesAfter(selected, func, a, b, n, seed, lastSamples0) ==
  IF "Monte Carlo" \in Range(selected)
  THEN Integrate("Monte Carlo", func, Num(a), Num(b), n, seed, 0, lastSamples0).samples
  ELSE lastSamples0

\* what the callbacks created by the current render close over
Closure ==
  [calculationResults |-> calculationResults, selectedMethods |-> selectedMethods,
   currentFunc |-> currentFunc(selectedFunction, customFunction, functionError),
   lowerLimit |-> lowerLimit, upperLimit |-> upperLimit]

\* `disabled` of the Calculate button
CalculateDisabled ==
  \/ Len(selectedMethods) = 0
  \/ (processedFunction = "" /\ rawFunction # "" /\ functionError # "")
  \/ lowerLimit >= upperLimit

\* performCalculations without `if (selectedMethods.length === 0) { ...; return; }`
performCalculationsUnchecked ==
  \E seed \in Seeds :
    LET func == currentFunc(selectedFunction, customFunction, functionError)
        exactValue == ExactValue(selectedFunction, customFunction,
                                 lowerLimit, upperLimit)
    IN /\ calculationResults' =
            Results(selectedMethods, func, exactValue, lowerLimit, upperLimit,
                    intervals, seed, lastSamples)
       /\ lastSamples' =
            SamplesAfter(selectedMethods, func, lowerLimit, upperLimit,
                         intervals, seed, lastSamples)
       /\ shouldCalculate' = FALSE
       /\ timers' = Append(timers, Closure)

performCalculations ==
  IF Len(selectedMethods) = 0
  THEN UNCHANGED <<calculationResults, shouldCalculate, timers, lastSamples>>
  ELSE \E seed \in Seeds :
         LET func == currentFunc(selectedFunction, customFunction, functionError)
             exactValue == ExactValue(selectedFunction, customFunction,
                                      lowerLimit, upperLimit)
         IN /\ calculationResults' =
                 Results(selectedMethods, func, exactValue, lowerLimit, upperLimit,
                         intervals, seed, lastSamples)
            /\ lastSamples' =
                 SamplesAfter(selectedMethods, func, lowerLimit, upperLimit,
                              intervals, seed, lastSamples)
            /\ shouldCalculate' = FALSE
            /\ timers' = Append(timers, Closure)

\* a point that records no value at all once one method has raised
PointOfAllOrNothing(n, out, lastSamples0) ==
  [point |-> [intervals |-> n,
              values |-> IF \E name \in DOMAIN out : out[name].err # "" THEN <<>>
                         ELSE [m \in DOMAIN out |-> out[m].value]],
   draws |-> IF "Monte Carlo" \in DOMAIN out THEN out["Monte Carlo"].evals ELSE 0,
   samples |-> IF "Monte Carlo" \in DOMAIN out THEN out["Monte Carlo"].samples
               ELSE lastSamples0]

\* the point generateConvergenceData pushes at interval count n, given the
\* outcome out[m] of integrate for every selected method m of the registry; with
\* the Monte Carlo draws made for it and the samples the instance holds afterwards
PointOf(n, out, lastSamples0) ==
  [point |-> [intervals |-> n,
              values |-> [m \in {name \in DOMAIN out : out[name].err = ""} |-> out[m].value]],
   draws |-> IF "Monte Carlo" \in DOMAIN out THEN out["Monte Carlo"].evals ELSE 0,
   samples |-> IF "Monte Carlo" \in DOMAIN out THEN out["Monte Carlo"].samples
               ELSE lastSamples0]

\* one iteration of the loop of generateConvergenceData, at interval count n
ConvergencePoint(c, n, seed, offset, lastSamples0) ==
  PointOf(n,
          [m \in {name \in Range(c.selectedMethods) : name \in MethodNames} |->
             SweepIntegrate(m, c.currentFunc, Num(c.lowerLimit), Num(c.upperLimit),
                            n, seed, offset, lastSamples0)],
          lastSamples0)

\* data.push(point): the sweep after the iteration that gave p
Pushed(before, p) ==
  [data |-> Append(before.data, p.point),
   draws |-> before.draws + p.draws,
   samples |-> p.samples]

\* the k-th iteration of the loop, after the sweep `before`
ConvergenceIteration(c, seed, before, k) ==
  Pushed(before,
         ConvergencePoint(c, ConvergenceFirst + (k - 1) * ConvergenceStep,
                          seed, before.draws, before.samples))

\* generateConvergenceData after its first k iterations
RECURSIVE ConvergenceSweep(_, _, _, _)
ConvergenceSweep(c, seed, lastSamples0, k) ==
  IF k = 0 THEN [data |-> <<>>, draws |-> 0, samples |-> lastSamples0]
  ELSE ConvergenceIteration(c, seed, ConvergenceSweep(c, seed, lastSamples0, k - 1), k)

\* the timer callback () => generateConvergenceData(), run with the closure c
generateConvergenceData(c) ==
  IF Len(c.calculationResults) = 0
  THEN UNCHANGED <<convergenceData, lastSamples>>
  ELSE \E seed \in Seeds :
         LET sweep == ConvergenceSweep(c, seed, lastSamples, ConvergencePoints)
         IN /\ convergenceData' = sweep.data
            /\ lastSamples' = sweep.samples

\* ------------------------------------------------------------------------
\* Actions of the calculator
\* ------------------------------------------------------------------------

Init ==
  /\ selectedFunction = "x^2"
  /\ customFunction = ""
  /\ lowerLimit = 0
  /\ upperLimit = 2
  /\ intervals = InitialIntervals
  /\ selectedMethods = <<"Trapezoidal Rule">>
  /\ rawFunction = ""
  /\ processedFunction = ""
  /\ functionError = ""
  /\ shouldCalculate = TRUE
  /\ calculationResults = <<>>
  /\ convergenceData = <<>>
  /\ timers = <<>>
  /\ lastSamples = Null
  /\ steps = 0
  /\ args = [func |-> "x^2", a |-> 0, b |-> 2, n |-> InitialIntervals]
  /\ outcome = NoCall

\* a user action, counted
UserStep ==
  /\ steps < MaxSteps
  /\ steps' = steps + 1

\* onChange of the function dropdown
SelectFunction ==
  \E key \in SelectableFunctions :
    /\ UserStep
    /\ selectedFunction' = key
    /\ rawFunction' = ""
    /\ shouldCalculate' = TRUE
    /\ UNCHANGED <<customFunction, lowerLimit, upperLimit, intervals, selectedMethods,
                   processedFunction, functionError, calculationResults,
                   convergenceData, timers, lastSamples, ruleVars>>

\* the lower-limit handler without `if (value < upperLimit)`
LowerLimitChangeUnguarded(value) ==
  /\ UserStep
  /\ lowerLimit' = value /\ shouldCalculate' = TRUE
  /\ UNCHANGED <<selectedFunction, customFunction, upperLimit, intervals,
                 selectedMethods, rawFunction, processedFunction, functionError,
                 calculationResults, convergenceData, timers, lastSamples, ruleVars>>

\* onChange of the lower-limit input, the number entered being `value`
LowerLimitChange(value) ==
  /\ UserStep
  /\ IF value < upperLimit
     THEN lowerLimit' = value /\ shouldCalculate' = TRUE
     ELSE UNCHANGED <<lowerLimit, shouldCalculate>>
  /\ UNCHANGED <<selectedFunction, customFunction, upperLimit, intervals,
                 selectedMethods, rawFunction, processedFunction, functionError,
                 calculationResults, convergenceData, timers, lastSamples, ruleVars>>

SetLowerLimit == \E value \in LimitChoices : LowerLimitChange(value)

\* onChange of the upper-limit input, the number entered being `value`
UpperLimitChange(value) ==
  /\ UserStep
  /\ IF value > lowerLimit
     THEN upperLimit' = value /\ shouldCalculate' = TRUE
     ELSE UNCHANGED <<upperLimit, shouldCalculate>>
  /\ UNCHANGED <<selectedFunction, customFunction, lowerLimit, intervals,
                 selectedMethods, rawFunction, processedFunction, functionError,
                 calculationResults, convergenceData, timers, lastSamples, ruleVars>>

SetUpperLimit == \E value \in LimitChoices : UpperLimitChange(value)

\* the slider's handler without onParameterChange()
SetIntervalsOnly ==
  \E value \in IntervalChoices :
    /\ UserStep
    /\ intervals' = value
    /\ UNCHANGED <<selectedFunction, customFunction, lowerLimit, upperLimit,
                   selectedMethods, rawFunction, processedFunction, functionError,
                   shouldCalculate, calculationResults, convergenceData, timers,
                   lastSamples, ruleVars>>

\* onChange of the interval slider
SetIntervals ==
  \E value \in IntervalChoices :
    /\ UserStep
    /\ intervals' = value
    /\ shouldCalculate' = TRUE
    /\ UNCHANGED <<selectedFunction, customFunction, lowerLimit, upperLimit,
                   selectedMethods, rawFunction, processedFunction, functionError,
                   calculationResults, convergenceData, timers, lastSamples, ruleVars>>

\* toggleMethod: prev.includes(name) ? prev.filter(m => m !== name) : [...prev, name]
toggleMethod(prev, methodName) ==
  IF methodName \in Range(prev)
  THEN SelectSeq(prev, LAMBDA m : m # methodName)
  ELSE Append(prev, methodName)

\* onChange of a method checkbox: onToggleMethod(method.name); onParameterChange()
ToggleMethod ==
  \E i \in 1..Len(integrationMethods) :
    /\ UserStep
    /\ selectedMethods' = toggleMethod(selectedMethods, integrationMethods[i])
    /\ shouldCalculate' = TRUE
    /\ UNCHANGED <<selectedFunction, customFunction, lowerLimit, upperLimit, intervals,
                   rawFunction, processedFunction, functionError, calculationResults,
                   convergenceData, timers, lastSamples, ruleVars>>

\* onClick of the Calculate button
Calculate ==
  /\ ~CalculateDisabled
  /\ UserStep
  /\ performCalculations
  /\ UNCHANGED <<selectedFunction, customFunction, lowerLimit, upperLimit, intervals,
                 selectedMethods, rawFunction, processedFunction, functionError,
                 convergenceData, ruleVars>>

\* performCalculations called while no rule is selected (the Calculate button is
\* disabled then, so only a direct call of the handler gets here)
CalculateUnselected ==
  /\ Len(selectedMethods) = 0
  /\ UserStep
  /\ performCalculations
  /\ UNCHANGED <<selectedFunction, customFunction, lowerLimit, upperLimit, intervals,
                 selectedMethods, rawFunction, processedFunction, functionError,
                 convergenceData, ruleVars>>

\* the oldest pending timer fires
TimerFires ==
  /\ Len(timers) > 0
  /\ generateConvergenceData(Head(timers))
  /\ timers' = Tail(timers)
  /\ UNCHANGED <<selectedFunction, customFunction, lowerLimit, upperLimit, intervals,
                 selectedMethods, rawFunction, processedFunction, functionError,
                 shouldCalculate, calculationResults, steps, ruleVars>>

\* ------------------------------------------------------------------------
\* SpecRules: one rule instance of each class, called with arguments drawn
\* from RuleInputs
\* ------------------------------------------------------------------------

RuleLimits == {-1, 0, 1, 2}

RuleInputs ==
  {t \in [func : PredefinedKeys \cup CustomTexts, a : RuleLimits, b : RuleLimits,
          n : 1..MaxN] : t.a < t.b}

InitRules ==
  /\ selectedFunction = "x^2"
  /\ customFunction = ""
  /\ lowerLimit = 0
  /\ upperLimit = 2
  /\ intervals = InitialIntervals
  /\ selectedMethods = <<"Trapezoidal Rule">>
  /\ rawFunction = ""
  /\ processedFunction = ""
  /\ functionError = ""
  /\ shouldCalculate = TRUE
  /\ calculationResults = <<>>
  /\ convergenceData = <<>>
  /\ timers = <<>>
  /\ lastSamples = Null
  /\ steps = 0
  /\ args \in RuleInputs
  /\ outcome = NoCall

\* the outcome of rule.integrate(args), without the instance's samples
CallOutcome(rule, r) ==
  [rule |-> rule, err |-> r.err, value |-> r.value, evals |-> r.evals]

CallTrapezoidal ==
  /\ outcome' = CallOutcome("Trapezoidal Rule",
                            TrapezoidalIntegrate(args.func, Num(args.a), Num(args.b), args.n))
  /\ UNCHANGED <<calcVars, lastSamples, args>>

CallSimpson13 ==
  /\ outcome' = CallOutcome("Simpson's 1/3",
                            Simpson13Integrate(args.func, Num(args.a), Num(args.b), args.n))
  /\ UNCHANGED <<calcVars, lastSamples, args>>

CallMidpoint ==
  /\ outcome' = CallOutcome("Midpoint Rule",
                            MidpointIntegrate(args.func, Num(args.a), Num(args.b), args.n))
  /\ UNCHANGED <<calcVars, lastSamples, args>>

CallSimpson38 ==
  /\ outcome' = CallOutcome("Simpson's 3/8",
                            Simpson38Integrate(args.func, Num(args.a), Num(args.b), args.n))
  /\ UNCHANGED <<calcVars, lastSamples, args>>

CallMonteCarlo ==
  \E seed \in Seeds :
    LET r == MonteCarloIntegrate(args.func, Num(args.a), Num(args.b), args.n,
                                 seed, 0, lastSamples)
    IN /\ outcome' = CallOutcome("Monte Carlo", r)
       /\ lastSamples' = r.samples
       /\ UNCHANGED <<calcVars, args>>

NextRules ==
  \/ CallTrapezoidal
  \/ CallSimpson13
  \/ CallMidpoint
  \/ CallSimpson38
  \/ CallMonteCarlo

SpecRules == InitRules /\ [][NextRules]_vars

\* ------------------------------------------------------------------------
\* Properties of the rules, over SpecRules
\* ------------------------------------------------------------------------

\* the arguments of the call as numbers
ArgA == Num(args.a)
ArgB == Num(args.b)
ArgH == Div(Sub(ArgB, ArgA), Num(args.n))

\* k-th point of the partition of [a, b] into n subintervals
X(k) == Add(ArgA, Mul(Num(k), ArgH))

\* func at the k-th point of the partition
F(k) == Apply(args.func, X(k))

\* the last call sampled func only where it returns a finite number
FiniteAtNodes ==
  LET nodes == CASE outcome.rule = "Trapezoidal Rule" -> TrapezoidalNodes(ArgA, ArgB, args.n)
                 [] outcome.rule = "Simpson's 1/3" -> Simpson13Nodes(ArgA, ArgB, args.n)
                 [] outcome.rule = "Midpoint Rule" -> MidpointNodes(ArgA, ArgB, args.n)
                 [] outcome.rule = "Simpson's 3/8" -> Simpson38Nodes(ArgA, ArgB, args.n)
                 [] outcome.rule = "Monte Carlo" ->
                      IF outcome.err = "" THEN [i \in 1..Len(lastSamples) |-> lastSamples[i].x]
                      ELSE <<>>
  IN /\ outcome.rule = "Monte Carlo" => outcome.err = ""
     /\ \A i \in 1..Len(nodes) :
          /\ ~Throws(args.func, nodes[i])
          /\ isFinite(Apply(args.func, nodes[i]))

\* C1: for every rule, a < b and positive n (n >= 3 for Simpson's 3/8), integrate
\* returns a finite number whenever func is finite at every node the rule samples
C1_FiniteOnFiniteNodes ==
  (/\ outcome.rule # ""
   /\ args.a < args.b
   /\ args.n >= 1
   /\ outcome.rule = "Simpson's 3/8" => args.n >= 3
   /\ FiniteAtNodes)
  => (outcome.err = "" /\ isFinite(outcome.value))

\* the same with Simpson's 1/3 called with n >= 2 only: the one case C1 fails in
\* is n = 1
C1_FiniteFromTwoIntervals ==
  (/\ outcome.rule # ""
   /\ outcome.rule = "Simpson's 1/3" => args.n >= 2
   /\ outcome.rule = "Simpson's 3/8" => args.n >= 3
   /\ FiniteAtNodes)
  => (outcome.err = "" /\ isFinite(outcome.value))

\* C4: Simpson's 3/8 integrate fails with its error for every n < 3, before any
\* evaluation of func, and does not raise this error for any n >= 3
C4_ThreeEighthsRejectsFewIntervals ==
  outcome.rule = "Simpson's 3/8" =>
    /\ args.n < 3 => (outcome.err = Simpson38ErrorMsg /\ outcome.evals = 0)
    /\ args.n >= 3 => outcome.err # Simpson38ErrorMsg

\* Simpson's 3/8 was called with n = 2 and a callable that raises on [a, b]: the
\* call failed with the error of the rule
C4_Witness ==
  /\ outcome.rule = "Simpson's 3/8"
  /\ args.n = 2
  /\ args.func = "x>1?y:1"
  /\ args.b = 2
  /\ outcome.err = Simpson38ErrorMsg

\* the indices of lo..hi that satisfy Keep, ascending
Indices(lo, hi, Keep(_)) ==
  SelectSeq([k \in 1..(IF hi < lo THEN 0 ELSE hi - lo + 1) |-> lo + k - 1], Keep)

\* sum of func over the partition points with the given indices
SumF(indices) == Sum([k \in 1..Len(indices) |-> F(indices[k])])

\* classical composite Simpson 1/3 sum over the first m subintervals (m even)
ClassicalSimpson13(m) ==
  Mul(Div(ArgH, Num(3)),
      Add(Add(F(0), F(m)),
          Add(Mul(Num(4), SumF(Indices(1, m - 1, LAMBDA i : i % 2 = 1))),
              Mul(Num(2), SumF(Indices(1, m - 1, LAMBDA i : i % 2 = 0))))))

\* trapezoidal panel over the k-th subinterval
TrapezoidPanel(k) == Mul(Div(ArgH, Num(2)), Add(F(k - 1), F(k)))

\* C5: for odd n >= 3, Simpson's 1/3 integrate equals the classical composite
\* Simpson 1/3 sum over the first n - 1 subintervals plus the trapezoidal panel
\* (h/2)*(f(b-h) + f(b)) over the last one
C5_OddCountHybrid ==
  (/\ outcome.rule = "Simpson's 1/3"
   /\ args.n % 2 = 1
   /\ args.n >= 3
   /\ outcome.err = "")
  => outcome.value = Add(ClassicalSimpson13(args.n - 1), TrapezoidPanel(args.n))

\* Simpson's 1/3 returned a finite value for x^3 with n = 5
C5_Witness ==
  /\ outcome.rule = "Simpson's 1/3"
  /\ args.n = 5
  /\ args.func = "x^3"
  /\ outcome.err = ""
  /\ isFinite(outcome.value)

\* composite 3/8 sum over the first m subintervals (m a multiple of 3)
Composite38(m) ==
  Mul(Div(Mul(Num(3), ArgH), Num(8)),
      Add(Add(F(0), F(m)),
          Add(Mul(Num(3), SumF(Indices(1, m - 1, LAMBDA i : i % 3 # 0))),
              Mul(Num(2), SumF(Indices(1, m - 1, LAMBDA i : i % 3 = 0))))))

\* C6: for n >= 3, Simpson's 3/8 integrate equals the composite 3/8 sum over the
\* first mainN subintervals (mainN the largest multiple of 3 not above n) plus the
\* trapezoidal panels over the remaining n - mainN; a constant c gives c*(b - a)
C6_ThreeEighthsWithRemainder ==
  (/\ outcome.rule = "Simpson's 3/8"
   /\ args.n >= 3
   /\ outcome.err = "")
  => LET mainN == 3 * (args.n \div 3)
         panels == [k \in 1..(args.n - mainN) |-> TrapezoidPanel(mainN + k)]
     IN /\ args.n - mainN \in {0, 1, 2}
        /\ outcome.value = Add(Composite38(mainN), Sum(panels))
        /\ args.func = "3" => outcome.value = Mul(Num(3), Sub(ArgB, ArgA))

\* Simpson's 3/8 returned a finite value for x^2 with n = 5: one 3/8 group and
\* two remaining subintervals
C6_Witness ==
  /\ outcome.rule = "Simpson's 3/8"
  /\ args.n = 5
  /\ args.func = "x^2"
  /\ outcome.err = ""
  /\ isFinite(outcome.value)

\* C7: for x^2 on [0, 2], Simpson's 1/3 integrate returns exactly 8/3 for every
\* even n >= 2
C7_SquareExactForEvenCount ==
  (/\ outcome.rule = "Simpson's 1/3"
   /\ args.func = "x^2"
   /\ args.a = 0
   /\ args.b = 2
   /\ args.n % 2 = 0
   /\ args.n >= 2)
  => (outcome.err = "" /\ outcome.value = Frac(8, 3))

\* Simpson's 1/3 returned 8/3 for x^2 on [0, 2] with n = 4
C7_Witness ==
  /\ outcome.rule = "Simpson's 1/3"
  /\ args = [func |-> "x^2", a |-> 0, b |-> 2, n |-> 4]
  /\ outcome.value = Frac(8, 3)

\* C8: for x^3 on [0, 1] with n = 3, Simpson's 3/8 integrate returns exactly 1/4
C8_CubeExactForThree ==
  (/\ outcome.rule = "Simpson's 3/8"
   /\ args = [func |-> "x^3", a |-> 0, b |-> 1, n |-> 3])
  => (outcome.err = "" /\ outcome.value = Frac(1, 4))

\* Simpson's 3/8 returned 1/4 for x^3 on [0, 1] with n = 3
C8_Witness ==
  /\ outcome.rule = "Simpson's 3/8"
  /\ args = [func |-> "x^3", a |-> 0, b |-> 1, n |-> 3]
  /\ outcome.value = Frac(1, 4)

\* ------------------------------------------------------------------------
\* Properties of the calculator, over Spec
\* ------------------------------------------------------------------------

\* Every edit of a parameter sets shouldCalculate, and only performCalculations
\* clears it: while it is clear, calculationResults are the results of the last
\* performCalculations, run with the parameters of the current state.
ResultsCurrent == ~shouldCalculate

\* the records of calculationResults
Records == Range(calculationResults)

\* what method.integrate can give with the parameters of the current state
Outcomes(method) ==
  LET func == currentFunc(selectedFunction, customFunction, functionError)
  IN IF method = "Monte Carlo"
     THEN {MonteCarloIntegrate(func, Num(lowerLimit), Num(upperLimit), intervals,
                               seed, 0, Null) : seed \in Seeds}
     ELSE {DeterministicIntegrate(method, func, Num(lowerLimit), Num(upperLimit), intervals)}

\* C2: a failure raised while computing one selected rule is isolated to it: its
\* record carries the message and no value, error or error estimate, and every
\* other selected rule has its own record with its computed value
C2_FailureIsolated ==
  ResultsCurrent =>
    /\ \A m \in Range(selectedMethods) \cap MethodNames :
         \E rec \in Records : rec.method = m
    /\ \A rec \in Records :
         \E o \in Outcomes(rec.method) :
           IF o.err # ""
           THEN /\ rec.calculationError = o.err
                /\ IsNaN(rec.value)
                /\ rec.error = Null
                /\ rec.errorEstimate = Null
                /\ rec.relativeError = Null
           ELSE /\ rec.calculationError = ""
                /\ rec.value = o.value

\* one batch holds a record with a failure message and a record with a value
C2_Witness ==
  /\ ResultsCurrent
  /\ \E failed \in Records, done \in Records :
       /\ failed.calculationError # ""
       /\ IsNaN(failed.value)
       /\ done.calculationError = ""
       /\ isFinite(done.value)

\* Simpson's 3/8 is selected and the interval count is below 3
FewIntervalsForThreeEighths ==
  /\ "Simpson's 3/8" \in Range(selectedMethods)
  /\ intervals < 3

\* C3 as stated: performCalculations with Simpson's 3/8 selected and n < 3 is
\* aborted as a whole, no selected rule gets a result
C3_ParameterErrorAborts ==
  [][(Calculate /\ FewIntervalsForThreeEighths)
       => \A i \in 1..Len(calculationResults') :
            calculationResults'[i].calculationError # ""]_vars

\* C3 as the code has it: with Simpson's 3/8 selected and n < 3, the record of
\* Simpson's 3/8 carries the error of the rule, and every other selected rule has
\* its record with a finite value
C3_ParameterErrorIsolated ==
  (ResultsCurrent /\ FewIntervalsForThreeEighths) =>
    /\ \E rec \in Records :
         /\ rec.method = "Simpson's 3/8"
         /\ rec.calculationError = Simpson38ErrorMsg
    /\ \A m \in Range(selectedMethods) \ {"Simpson's 3/8"} :
         \E rec \in Records :
           /\ rec.method = m
           /\ rec.calculationError = ""
           /\ isFinite(rec.value)

\* a calculation with n = 2 left the error of Simpson's 3/8 beside the value of
\* the trapezoidal rule
C3_Witness ==
  /\ ResultsCurrent
  /\ FewIntervalsForThreeEighths
  /\ \E rec \in Records :
       rec.method = "Simpson's 3/8" /\ rec.calculationError = Simpson38ErrorMsg
  /\ \E rec \in Records :
       rec.method = "Trapezoidal Rule" /\ isFinite(rec.value)

\* C9: with a predefined function active and exact(a, b) finite (0 included),
\* every successful record carries the absolute error |value - exact(a, b)|
C9_AbsoluteErrorWhenExactFinite ==
  (/\ ResultsCurrent
   /\ customFunction = ""
   /\ isFinite(exact(selectedFunction, Num(lowerLimit), Num(upperLimit))))
  => \A rec \in Records :
       rec.calculationError = "" =>
         rec.error = Abs(Sub(rec.value,
                             exact(selectedFunction, Num(lowerLimit), Num(upperLimit))))

\* the same where exact(a, b) is not 0
C9_AbsoluteErrorWhenExactNonZero ==
  (/\ ResultsCurrent
   /\ customFunction = ""
   /\ isFinite(exact(selectedFunction, Num(lowerLimit), Num(upperLimit)))
   /\ exact(selectedFunction, Num(lowerLimit), Num(upperLimit)) # Zero)
  => \A rec \in Records :
       rec.calculationError = "" =>
         rec.error = Abs(Sub(rec.value,
                             exact(selectedFunction, Num(lowerLimit), Num(upperLimit))))

\* position of a method in the registry
RegistryIndex(method) ==
  CHOOSE i \in 1..Len(integrationMethods) : integrationMethods[i] = method

\* C10: after performCalculations with a non-empty selection, calculationResults
\* holds exactly one record per selected rule, in the order of the registry
C10_OneRecordPerSelectedInRegistryOrder ==
  ResultsCurrent =>
    /\ {rec.method : rec \in Records} = Range(selectedMethods)
    /\ Len(calculationResults) = Cardinality(Range(selectedMethods))
    /\ Len(calculationResults) > 0
    /\ \A i \in 1..Len(calculationResults), j \in 1..Len(calculationResults) :
         i < j => RegistryIndex(calculationResults[i].method)
                    < RegistryIndex(calculationResults[j].method)

\* results of a selection made in another order than the registry's
C10_Witness ==
  /\ ResultsCurrent
  /\ Len(calculationResults) >= 2
  /\ \E i \in 1..Len(selectedMethods), j \in 1..Len(selectedMethods) :
       /\ i < j
       /\ RegistryIndex(selectedMethods[i]) > RegistryIndex(selectedMethods[j])

\* the rule identifiers of the documentation, under the names of the classes
DocumentedRules ==
  {"Trapezoidal Rule", "Midpoint Rule", "Simpson's 1/3", "Simpson's 3/8", "Monte Carlo"}

\* the calculator offers the rule: it is selected, or the registry holds it and
\* toggleMethod can select it
Offered(name) ==
  \/ name \in Range(selectedMethods)
  \/ \E i \in 1..Len(integrationMethods) : integrationMethods[i] = name

\* C11: each of the five rules Trapezoidal, Midpoint, Simpson 1/3, Simpson 3/8 and
\* Monte Carlo is in the registry, so that the calculator offers it at any time
C11_AllRulesRegistered == \A name \in DocumentedRules : Offered(name)

\* the same for the rules other than Midpoint
C11_RulesRegisteredButMidpoint ==
  \A name \in DocumentedRules \ {"Midpoint Rule"} : Offered(name)

\* the selected methods of closure c that the registry holds
SweptMethods(c) == Range(c.selectedMethods) \cap MethodNames

\* integrate of method m raises at interval count n in the sweep run with closure c
RaisesInSweep(c, m, n) ==
  IF m = "Monte Carlo"
  THEN \A s \in Seeds :
         MonteCarloSweep[<<c.currentFunc, Num(c.lowerLimit), Num(c.upperLimit), n, s>>].err # ""
  ELSE DeterministicSweep[<<m, c.currentFunc, Num(c.lowerLimit), Num(c.upperLimit), n>>].err # ""

\* data is a complete trace for closure c: 25 points at 2, 4, ..., 50, and in each
\* point a swept method has a value exactly if its integrate did not raise
CompleteTrace(c, data) ==
  /\ Len(data) = 25
  /\ \A k \in 1..Len(data) :
       /\ data[k].intervals = 2 * k
       /\ DOMAIN data[k].values \subseteq SweptMethods(c)
       /\ \A m \in SweptMethods(c) :
            (m \in DOMAIN data[k].values) <=> ~RaisesInSweep(c, m, 2 * k)

\* C12: whenever generateConvergenceData produces a trace, the trace has exactly
\* 25 points with interval counts 2, 4, ..., 50 in ascending order, and in each
\* point a selected rule has a value if and only if its integrate call did not
\* raise; a raising rule removes neither the point nor the other rules' values
C12_TraceCompleteDespiteFailures ==
  [][(TimerFires /\ Len(Head(timers).calculationResults) > 0)
       => CompleteTrace(Head(timers), convergenceData')]_vars

\* a trace whose first point lacks Simpson's 3/8, which raised at n = 2, and has
\* the trapezoidal value, and whose second point has both
C12_Witness ==
  /\ Len(convergenceData) = 25
  /\ "Simpson's 3/8" \notin DOMAIN convergenceData[1].values
  /\ "Trapezoidal Rule" \in DOMAIN convergenceData[1].values
  /\ "Simpson's 3/8" \in DOMAIN convergenceData[2].values
  /\ "Trapezoidal Rule" \in DOMAIN convergenceData[2].values

\* C13: every performCalculations that completes with at least one result is
\* followed, when its timer fires, by convergenceData being the convergence trace
\* of that calculation's function, bounds and selected rules; the first
\* calculation after start-up included
C13_TraceFollowsEveryCalculation ==
  [][TimerFires
       => \E seed \in Seeds :
            convergenceData' =
              ConvergenceSweep(Head(timers), seed, lastSamples, ConvergencePoints).data]_vars

\* the same for the calculations made when calculationResults already held results
C13_TraceFollowsLaterCalculations ==
  [][(TimerFires /\ Len(Head(timers).calculationResults) > 0)
       => \E seed \in Seeds :
            convergenceData' =
              ConvergenceSweep(Head(timers), seed, lastSamples, ConvergencePoints).data]_vars


\* ------------------------------------------------------------------------
\* Text: a string as the sequence of its characters
\* ------------------------------------------------------------------------

LowerCase ==
  <<"a", "b", "c", "d", "e", "f", "g", "h", "i", "j", "k", "l", "m", "n", "o", "p", "q", "r", "s", "t", "u", "v", "w", "x", "y", "z">>

UpperCase ==
  <<"A", "B", "C", "D", "E", "F", "G", "H", "I", "J", "K", "L", "M", "N", "O", "P", "Q", "R", "S", "T", "U", "V", "W", "X", "Y", "Z">>

DigitChars ==
  <<"0", "1", "2", "3", "4", "5", "6", "7", "8", "9">>

\* \d of a regular expression
Digits == Range(DigitChars)

\* \w of a regular expression
WordChars == Range(LowerCase) \cup Range(UpperCase) \cup Digits \cup {"_"}

\* \s of a regular expression
WhiteSpace == {" ", "\t", "\n"}

\* String.prototype.toLowerCase
toLowerCase(text) ==
  [k \in 1..Len(text) |->
     IF \E i \in 1..Len(UpperCase) : UpperCase[i] = text[k]
     THEN LowerCase[CHOOSE i \in 1..Len(UpperCase) : UpperCase[i] = text[k]]
     ELSE text[k]]

\* !text.trim()
IsBlank(text) == \A k \in 1..Len(text) : text[k] \in WhiteSpace

\* ------------------------------------------------------------------------
\* String.prototype.replace(/pattern/g, replacement)
\* A pattern is a sequence of atoms, each a character class taken once or
\* (star) any number of times, between optional \b assertions. A replacement
\* is a sequence of characters and of references "$1", "$2" to the groups,
\* each group one character of the match, at the position groups[.] gives.
\* ------------------------------------------------------------------------

Once(chars) == [chars |-> chars, star |-> FALSE]

Many(chars) == [chars |-> chars, star |-> TRUE]

Literal(text) == [k \in 1..Len(text) |-> Once({text[k]})]

\* \b at the position before text[i]
Boundary(text, i) ==
  (i > 1 /\ text[i - 1] \in WordChars) # (i <= Len(text) /\ text[i] \in WordChars)

RECURSIVE MatchEnd(_, _, _, _)
\* the position after the match of atoms k.. that starts at text[i], 0 if none
MatchEnd(text, i, atoms, k) ==
  IF k > Len(atoms) THEN i
  ELSE IF i <= Len(text) /\ text[i] \in atoms[k].chars
       THEN MatchEnd(text, i + 1, atoms, IF atoms[k].star THEN k ELSE k + 1)
       ELSE IF atoms[k].star THEN MatchEnd(text, i, atoms, k + 1) ELSE 0

\* end, when the match ending before position end passes the trailing \b
Bounded(text, pattern, end) ==
  IF end # 0 /\ pattern.wordEnd /\ ~Boundary(text, end) THEN 0 ELSE end

\* the position after the match of the pattern that starts at text[i], 0 if none
MatchAt(text, i, pattern) ==
  IF pattern.wordStart /\ ~Boundary(text, i) THEN 0
  ELSE Bounded(text, pattern, MatchEnd(text, i, pattern.atoms, 1))

\* the replacement text for one match
Expand(step, matched) ==
  [k \in 1..Len(step.replacement) |->
     CASE step.replacement[k] = "$1" -> matched[step.groups[1]]
       [] step.replacement[k] = "$2" -> matched[step.groups[2]]
       [] OTHER -> step.replacement[k]]

\* the least element of a non-empty set of positions
First(positions) == CHOOSE j \in positions : \A m \in positions : j <= m

RECURSIVE ReplaceFrom(_, _, _)
\* text from position i on with every match replaced, scanning left to right;
\* starts are the positions from i on at which the pattern matches
ReplaceNext(text, i, step, starts) ==
  IF starts = {} THEN SubSeq(text, i, Len(text))
  ELSE SubSeq(text, i, First(starts) - 1)
       \o Expand(step, SubSeq(text, First(starts), MatchAt(text, First(starts), step) - 1))
       \o ReplaceFrom(text, MatchAt(text, First(starts), step), step)

ReplaceFrom(text, i, step) ==
  ReplaceNext(text, i, step, {j \in i..Len(text) : MatchAt(text, j, step) # 0})

Replace(text, step) == ReplaceFrom(text, 1, step)

\* ------------------------------------------------------------------------
\* processCustomFunction: the rewriting steps, in the order of the source
\* ------------------------------------------------------------------------

\* .replace(/\bword\b/g, replacement)
WholeWord(word, replacement) ==
  [wordStart |-> TRUE, atoms |-> Literal(word), wordEnd |-> TRUE,
   replacement |-> replacement, groups |-> <<>>]

\* .replace(/atoms/g, replacement)
Anywhere(atoms, replacement, groups) ==
  [wordStart |-> FALSE, atoms |-> atoms, wordEnd |-> FALSE,
   replacement |-> replacement, groups |-> groups]

\* white space, constants, exponentials
StandardizeSteps ==
  << Anywhere(<<Once(WhiteSpace), Many(WhiteSpace)>>, <<>>, <<>>),
     WholeWord(<<"e">>, <<"M", "a", "t", "h", ".", "E">>),
     WholeWord(<<"p", "i">>, <<"M", "a", "t", "h", ".", "P", "I">>),
     Anywhere(<<Once({"e"}), Many(WhiteSpace), Once({"^"})>>, <<"M", "a", "t", "h", ".", "e", "x", "p">>, <<>>),
     Anywhere(<<Once({"^"})>>, <<"*", "*">>, <<>>) >>

\* the logarithm steps with ln rewritten at once, before log
LogarithmStepsWithoutPlaceholder ==
  << WholeWord(<<"l", "n">>, <<"M", "a", "t", "h", ".", "l", "o", "g">>),
     WholeWord(<<"l", "o", "g">>, <<"M", "a", "t", "h", ".", "l", "o", "g", "1", "0">>) >>

\* logarithms: ln goes through the placeholder NATURAL_LOG
LogarithmSteps ==
  << WholeWord(<<"l", "n">>, <<"N", "A", "T", "U", "R", "A", "L", "_", "L", "O", "G">>),
     WholeWord(<<"l", "o", "g">>, <<"M", "a", "t", "h", ".", "l", "o", "g", "1", "0">>),
     Anywhere(Literal(<<"N", "A", "T", "U", "R", "A", "L", "_", "L", "O", "G">>), <<"M", "a", "t", "h", ".", "l", "o", "g">>, <<>>) >>

\* the other functions, then the implicit multiplications
FunctionSteps ==
  << WholeWord(<<"s", "i", "n">>, <<"M", "a", "t", "h", ".", "s", "i", "n">>),
     WholeWord(<<"c", "o", "s">>, <<"M", "a", "t", "h", ".", "c", "o", "s">>),
     WholeWord(<<"t", "a", "n">>, <<"M", "a", "t", "h", ".", "t", "a", "n">>),
     WholeWord(<<"c", "s", "c">>, <<"(", "1", "/", "M", "a", "t", "h", ".", "s", "i", "n", ")">>),
     WholeWord(<<"s", "e", "c">>, <<"(", "1", "/", "M", "a", "t", "h", ".", "c", "o", "s", ")">>),
     WholeWord(<<"c", "o", "t">>, <<"(", "1", "/", "M", "a", "t", "h", ".", "t", "a", "n", ")">>),
     WholeWord(<<"a", "s", "i", "n">>, <<"M", "a", "t", "h", ".", "a", "s", "i", "n">>),
     WholeWord(<<"a", "r", "c", "s", "i", "n">>, <<"M", "a", "t", "h", ".", "a", "s", "i", "n">>),
     WholeWord(<<"a", "c", "o", "s">>, <<"M", "a", "t", "h", ".", "a", "c", "o", "s">>),
     WholeWord(<<"a", "r", "c", "c", "o", "s">>, <<"M", "a", "t", "h", ".", "a", "c", "o", "s">>),
     WholeWord(<<"a", "t", "a", "n">>, <<"M", "a", "t", "h", ".", "a", "t", "a", "n">>),
     WholeWord(<<"a", "r", "c", "t", "a", "n">>, <<"M", "a", "t", "h", ".", "a", "t", "a", "n">>),
     WholeWord(<<"s", "i", "n", "h">>, <<"M", "a", "t", "h", ".", "s", "i", "n", "h">>),
     WholeWord(<<"c", "o", "s", "h">>, <<"M", "a", "t", "h", ".", "c", "o", "s", "h">>),
     WholeWord(<<"t", "a", "n", "h">>, <<"M", "a", "t", "h", ".", "t", "a", "n", "h">>),
     WholeWord(<<"s", "q", "r", "t">>, <<"M", "a", "t", "h", ".", "s", "q", "r", "t">>),
     WholeWord(<<"a", "b", "s">>, <<"M", "a", "t", "h", ".", "a", "b", "s">>),
     Anywhere(<<Once(Digits), Once({"x"})>>, <<"$1", "*", "$2">>, <<1, 2>>),
     Anywhere(<<Once({"x"}), Once(Digits)>>, <<"$1", "*", "$2">>, <<1, 2>>),
     Anywhere(<<Once({")"}), Once({"x"})>>, <<")", "*", "$1">>, <<2>>),
     Anywhere(<<Once({")"}), Once({"("})>>, <<")", "*", "$1">>, <<2>>),
     Anywhere(<<Once({"x"}), Once({"("})>>, <<"$1", "*", "(">>, <<1>>) >>

RewriteSteps == StandardizeSteps \o LogarithmSteps \o FunctionSteps

RECURSIVE ApplySteps(_, _, _)
\* the steps from k on applied to text, which step k - 1 produced (no step
\* changes an empty text)
ApplyRest(text, rewriteSteps, k) ==
  IF Len(text) = 0 THEN text ELSE ApplySteps(text, rewriteSteps, k)

\* text after the steps k.. are applied to it, one after the other
ApplySteps(text, rewriteSteps, k) ==
  IF k > Len(rewriteSteps) THEN text
  ELSE ApplyRest(Replace(text, rewriteSteps[k]), rewriteSteps, k + 1)

\* the value of `processed` when the rewriting is done
Normalize(raw) == ApplySteps(toLowerCase(raw), RewriteSteps, 1)

\* ------------------------------------------------------------------------
\* new Function('x', `try { return ${processed}; } catch ...`) and its calls:
\* what the engine makes of the rewritten texts, at the points testPoints
\* ------------------------------------------------------------------------

testPoints == <<Frac(1, 10), Num(1), Num(2), Num(3), Num(5)>>

\* the same outcome at every point
Always(kind) == [p \in DOMAIN testPoints |-> kind]

\* characters of a number, or of a name with its member accesses
NameChars == WordChars \cup {"."}

\* the maximal runs of NameChars in text
Runs(text) ==
  {SubSeq(text, i, First({j \in i..Len(text) : j = Len(text) \/ text[j + 1] \notin NameChars})) :
     i \in {k \in 1..Len(text) :
              text[k] \in NameChars /\ (k = 1 \/ text[k - 1] \notin NameChars)}}

IsNumber(run) == \A k \in 1..Len(run) : run[k] \in Digits \cup {"."}

\* the names a compiled text can use: its parameter and members of Math
KnownNames ==
  { <<"x">>, <<"M", "a", "t", "h", ".", "E">>, <<"M", "a", "t", "h", ".", "P", "I">>, <<"M", "a", "t", "h", ".", "e", "x", "p">>, <<"M", "a", "t", "h", ".", "l", "o", "g">>, <<"M", "a", "t", "h", ".", "l", "o", "g", "1", "0">>,
    <<"M", "a", "t", "h", ".", "s", "i", "n">>, <<"M", "a", "t", "h", ".", "c", "o", "s">>, <<"M", "a", "t", "h", ".", "t", "a", "n">>, <<"M", "a", "t", "h", ".", "a", "s", "i", "n">>, <<"M", "a", "t", "h", ".", "a", "c", "o", "s">>, <<"M", "a", "t", "h", ".", "a", "t", "a", "n">>,
    <<"M", "a", "t", "h", ".", "s", "i", "n", "h">>, <<"M", "a", "t", "h", ".", "c", "o", "s", "h">>, <<"M", "a", "t", "h", ".", "t", "a", "n", "h">>, <<"M", "a", "t", "h", ".", "s", "q", "r", "t">>, <<"M", "a", "t", "h", ".", "a", "b", "s">> }

\* the number of occurrences of char in the first k characters of text
Count(text, char, k) == Cardinality({i \in 1..k : text[i] = char})

\* new Function accepts the text: no number runs into a name (2Math, 2ln), and
\* the parentheses balance
Compiles(text) ==
  /\ \A run \in Runs(text) : run[1] \in Digits => IsNumber(run)
  /\ \A k \in {i \in 1..Len(text) : text[i] = ")"} :
       Count(text, ")", k) <= Count(text, "(", k)
  /\ Count(text, ")", Len(text)) = Count(text, "(", Len(text))

\* evaluating the expression raises a ReferenceError or a TypeError: it uses a
\* name that is not defined (math, lnx, exp, y) or a member of an undefined
\* value (Math.Math.log10)
UsesUndefined(text) ==
  \E run \in Runs(text) : ~IsNumber(run) /\ run \notin KnownNames

\* The expressions that use defined names only, with the outcome of their
\* evaluation at each of testPoints: a finite number, NaN, an infinity, or a
\* value that is not a number. 1/Math.sin is NaN, and so is its product with x.
Expressions ==
  { [text |-> <<"3">>, kinds |-> Always("finite")],
    [text |-> <<"(", "1", "/", "M", "a", "t", "h", ".", "s", "i", "n", ")", "*", "(", "x", ")">>, kinds |-> Always("NaN")],
    [text |-> <<"(", "1", "/", "M", "a", "t", "h", ".", "c", "o", "s", ")", "*", "(", "x", ")">>, kinds |-> Always("NaN")],
    [text |-> <<"(", "1", "/", "M", "a", "t", "h", ".", "t", "a", "n", ")", "*", "(", "x", ")">>, kinds |-> Always("NaN")],
    [text |-> <<"M", "a", "t", "h", ".", "E", "*", "*", "x">>, kinds |-> Always("finite")],
    [text |-> <<"M", "a", "t", "h", ".", "E", "*", "*", "(", "x", ")">>, kinds |-> Always("finite")],
    [text |-> <<"2", "*", "M", "a", "t", "h", ".", "E", "*", "*", "x">>, kinds |-> Always("finite")],
    [text |-> <<"M", "a", "t", "h", ".", "l", "o", "g", "(", "x", ")">>, kinds |-> Always("finite")],
    [text |-> <<"M", "a", "t", "h", ".", "l", "o", "g", "1", "0", "(", "x", ")">>, kinds |-> Always("finite")],
    [text |-> <<"M", "a", "t", "h", ".", "l", "o", "g", "(", "x", ")", "+", "M", "a", "t", "h", ".", "l", "o", "g", "1", "0", "(", "x", ")">>, kinds |-> Always("finite")],
    [text |-> <<"M", "a", "t", "h", ".", "l", "o", "g", "1", "0", "(", "x", ")", "+", "M", "a", "t", "h", ".", "l", "o", "g", "(", "x", ")">>, kinds |-> Always("finite")],
    [text |-> <<"M", "a", "t", "h", ".", "l", "o", "g", "(", "M", "a", "t", "h", ".", "l", "o", "g", "1", "0", "(", "x", ")", ")">>, kinds |-> <<"NaN", "-Infinity", "finite", "finite", "finite">>],
    [text |-> <<"M", "a", "t", "h", ".", "l", "o", "g", "1", "0", "(", "M", "a", "t", "h", ".", "l", "o", "g", "(", "x", ")", ")">>, kinds |-> <<"NaN", "-Infinity", "finite", "finite", "finite">>],
    [text |-> <<"x", "*", "x", "+", "2", "*", "x">>, kinds |-> Always("finite")],
    [text |-> <<"x", "*", "x", "+", "2", "*", "x", "+", "1">>, kinds |-> Always("finite")],
    [text |-> <<"M", "a", "t", "h", ".", "s", "q", "r", "t", "(", "x", "-", "9", ")">>, kinds |-> Always("NaN")],
    [text |-> <<"M", "a", "t", "h", ".", "s", "q", "r", "t", "(", "x", "-", "2", ")">>, kinds |-> <<"NaN", "NaN", "finite", "finite", "finite">>],
    [text |-> <<"1", "/", "(", "x", "-", "1", ")">>, kinds |-> <<"finite", "Infinity", "finite", "finite", "finite">>],
    [text |-> <<"M", "a", "t", "h", ".", "l", "o", "g", "(", "x", ")", "+", "M", "a", "t", "h", ".", "l", "o", "g", "(", "x", ")">>, kinds |-> Always("finite")],
    [text |-> <<"M", "a", "t", "h", ".", "l", "o", "g", "1", "0", "(", "x", ")", "+", "M", "a", "t", "h", ".", "l", "o", "g", "1", "0", "(", "x", ")">>, kinds |-> Always("finite")],
    [text |-> <<"M", "a", "t", "h", ".", "l", "o", "g", "(", "x", ")", "+", "M", "a", "t", "h", ".", "l", "o", "g", "1", "0", "(", "x", ")", "+", "M", "a", "t", "h", ".", "l", "o", "g", "(", "x", ")">>, kinds |-> Always("finite")],
    [text |-> <<"1", "/", "M", "a", "t", "h", ".", "s", "i", "n", "(", "x", ")">>, kinds |-> Always("finite")],
    [text |-> <<"1", "/", "M", "a", "t", "h", ".", "c", "o", "s", "(", "x", ")">>, kinds |-> Always("finite")],
    [text |-> <<"1", "/", "M", "a", "t", "h", ".", "t", "a", "n", "(", "x", ")">>, kinds |-> Always("finite")],
    [text |-> <<"2", "*", "x">>, kinds |-> Always("finite")],
    [text |-> <<"(", "x", ")", "*", "(", "x", ")">>, kinds |-> Always("finite")],
    [text |-> <<"M", "a", "t", "h", ".", "P", "I", "*", "x">>, kinds |-> Always("finite")],
    [text |-> <<"M", "a", "t", "h", ".", "s", "i", "n", "(", "x", ")">>, kinds |-> Always("finite")],
    [text |-> <<"1">>, kinds |-> Always("finite")],
    [text |-> <<"0", "/", "0">>, kinds |-> Always("NaN")],
    [text |-> <<"1", "/", "0">>, kinds |-> Always("Infinity")],
    [text |-> <<"'", "'">>, kinds |-> Always("string")] }

\* inputs as a user writes them
WrittenInputs ==
  { <<"c", "s", "c", "(", "x", ")">>,
    <<"s", "e", "c", "(", "x", ")">>,
    <<"c", "o", "t", "(", "x", ")">>,
    <<"e", "^", "x">>,
    <<"e", "^", "(", "x", ")">>,
    <<"2", "*", "e", "^", "x">>,
    <<"2", "e", "^", "x">>,
    <<"l", "n", "(", "x", ")">>,
    <<"l", "o", "g", "(", "x", ")">>,
    <<"l", "n", "(", "x", ")", "+", "l", "o", "g", "(", "x", ")">>,
    <<"l", "o", "g", "(", "x", ")", "+", "l", "n", "(", "x", ")">>,
    <<"l", "n", "(", "l", "o", "g", "(", "x", ")", ")">>,
    <<"l", "o", "g", "(", "l", "n", "(", "x", ")", ")">>,
    <<"l", "n", " ", "x">>,
    <<"M", "a", "t", "h", ".", "s", "i", "n", "(", "x", ")">>,
    <<"M", "a", "t", "h", ".", "s", "i", "n", "(", "x", ")", " ", "+", " ", "M", "a", "t", "h", ".", "c", "o", "s", "(", "x", ")">>,
    <<"M", "a", "t", "h", ".", "e", "x", "p", "(", "-", "x", "*", "x", ")">>,
    <<"x", "*", "M", "a", "t", "h", ".", "l", "o", "g", "(", "x", ")">>,
    <<"x", "*", "x", " ", "+", " ", "2", "*", "x">>,
    <<"x", "*", "x", " ", "+", " ", "2", "*", "x", " ", "+", " ", "1">>,
    <<"s", "q", "r", "t", "(", "x", "-", "9", ")">>,
    <<"s", "q", "r", "t", "(", "x", "-", "2", ")">>,
    <<"1", "/", "(", "x", "-", "1", ")">>,
    <<"s", "i", "n", "(", "x">>,
    <<"l", "n", "(", "x", ")", "+", "l", "n", "(", "x", ")">>,
    <<"l", "o", "g", "(", "x", ")", "+", "l", "o", "g", "(", "x", ")">>,
    <<"l", "n", "(", "x", ")", "+", "l", "o", "g", "(", "x", ")", "+", "l", "n", "(", "x", ")">>,
    <<"L", "N", "(", "x", ")">>,
    <<"2", " ", "l", "n", "(", "x", ")">>,
    <<"1", "/", "s", "i", "n", "(", "x", ")">>,
    <<"1", "/", "c", "o", "s", "(", "x", ")">>,
    <<"1", "/", "t", "a", "n", "(", "x", ")">>,
    <<"2", "x">>,
    <<"(", "x", ")", "(", "x", ")">>,
    <<"p", "i", "*", "x">>,
    <<"s", "i", "n", "(", "x", ")">>,
    <<"e", "x", "p", "(", "x", ")">>,
    <<"'", "'">> }


\* x<d?then:else with a digit d
IsConditional(text) ==
  /\ Len(text) >= 6
  /\ text[1] = "x" /\ text[2] = "<" /\ text[3] \in Digits /\ text[4] = "?"
  /\ \E k \in 5..Len(text) : text[k] = ":"

ThenBranch(text) == SubSeq(text, 5, First({k \in 5..Len(text) : text[k] = ":"}) - 1)

ElseBranch(text) == SubSeq(text, First({k \in 5..Len(text) : text[k] = ":"}) + 1, Len(text))

DigitValue(char) == CHOOSE d \in 0..9 : DigitChars[d + 1] = char

Meaning(text) == CHOOSE e \in Expressions : e.text = text

RECURSIVE testFunc(_, _)
\* the outcome of testFunc(testPoints[p]) for the callable compiled from text:
\* of a conditional, the outcome of the branch taken
testFunc(text, p) ==
  IF IsConditional(text)
  THEN IF Less(testPoints[p], Num(DigitValue(text[3])))
       THEN testFunc(ThenBranch(text), p)
       ELSE testFunc(ElseBranch(text), p)
  ELSE IF UsesUndefined(text) THEN "throws"
  ELSE Meaning(text).kinds[p]

\* message of the SyntaxError of new Function
SyntaxErrorMsg == <<"U", "n", "e", "x", "p", "e", "c", "t", "e", "d", " ", "t", "o", "k", "e", "n">>

NoValidPointsMsg ==
  <<"F", "u", "n", "c", "t", "i", "o", "n", " ", "d", "o", "e", "s", " ", "n", "o", "t", " ", "p", "r", "o", "d", "u", "c", "e", " ", "v", "a", "l", "i", "d", " ", "n", "u", "m", "e", "r", "i", "c", " ", "r", "e", "s", "u", "l", "t", "s", ".", " ", "C", "h", "e", "c", "k", " ", "y", "o", "u", "r", " ", "s", "y", "n", "t", "a", "x", " ", "a", "n", "d", " ", "d", "o", "m", "a", "i", "n", ".">>

\* ------------------------------------------------------------------------
\* processCustomFunction
\* ------------------------------------------------------------------------

\* typeof testVal === 'number' && isFinite(testVal) && !isNaN(testVal)
IsValidPoint(kind) == kind = "finite"

\* the loop over testPoints left at the first point that throws
ProbeOutcomesUntilThrow(text) ==
  [p \in {q \in DOMAIN testPoints : \A r \in 1..q : testFunc(text, r) # "throws"} |->
     testFunc(text, p)]

\* the outcomes of the calls the loop over testPoints makes, in order
ProbeOutcomes(text) == [p \in DOMAIN testPoints |-> testFunc(text, p)]

hasValidPoints(probes) == \E p \in DOMAIN probes : IsValidPoint(probes[p])

\* { processed, error }, with the rewritten text and the outcomes of the probes
Result(processed, error, normalized, probes) ==
  [processed |-> processed, error |-> error, normalized |-> normalized, probes |-> probes]

\* the end of processCustomFunction, once the probes are evaluated
Probed(processed, probes) ==
  IF hasValidPoints(probes) THEN Result(processed, <<>>, processed, probes)
  ELSE Result(Null, NoValidPointsMsg, processed, probes)

\* processCustomFunction once the text is rewritten
Tested(processed) ==
  IF Compiles(processed) THEN Probed(processed, ProbeOutcomes(processed))
  ELSE Result(Null, SyntaxErrorMsg, processed, <<>>)

processCustomFunction(raw) ==
  IF IsBlank(raw) THEN Result(Null, <<>>, Null, <<>>)
  ELSE Tested(Normalize(raw))

\* ------------------------------------------------------------------------
\* The custom-function input and its Parse button
\* ------------------------------------------------------------------------

\* the characters of a text the calculator holds
Written(string) ==
  CASE string = "" -> <<>>
    [] string = "3" -> <<"3">>
    [] string = "y" -> <<"y">>

NoValidPointsText ==
  "Function does not produce valid numeric results. Check your syntax and domain."

\* the text of a sequence of characters
Spelled(text) ==
  CASE text = <<>> -> ""
    [] text = <<"3">> -> "3"
    [] text = <<"y">> -> "y"
    [] text = NoValidPointsMsg -> NoValidPointsText
    [] text = SyntaxErrorMsg -> "Unexpected token"

\* processCustomFunction(rawFunction) for the texts the input can hold
Processed == Tabulated([raw \in RawChoices \cup {""} |-> processCustomFunction(Written(raw))])

\* onChange of the custom-function input: setRawFunction(e.target.value)
SetRawFunction ==
  \E text \in RawChoices :
    /\ UserStep
    /\ rawFunction' = text
    /\ UNCHANGED <<selectedFunction, customFunction, lowerLimit, upperLimit, intervals,
                   selectedMethods, processedFunction, functionError, shouldCalculate,
                   calculationResults, convergenceData, timers, lastSamples, ruleVars>>

\* handleProcessFunction with setCustomFunction(rawFunction) whatever the result
handleProcessFunctionUsingRaw ==
  LET result == Processed[rawFunction]
  IN /\ processedFunction' = Spelled(result.processed)
     /\ functionError' = Spelled(result.error)
     /\ customFunction' = rawFunction
     /\ shouldCalculate' = TRUE

\* handleProcessFunction; null is "" in processedFunction
handleProcessFunction ==
  LET result == Processed[rawFunction]
  IN /\ processedFunction' = Spelled(result.processed)
     /\ functionError' = Spelled(result.error)
     /\ customFunction' = IF result.processed # Null THEN Spelled(result.processed) ELSE ""
     /\ shouldCalculate' = TRUE

\* onClick of the Parse button
ProcessFunction ==
  /\ UserStep
  /\ handleProcessFunction
  /\ UNCHANGED <<selectedFunction, lowerLimit, upperLimit, intervals, selectedMethods,
                 rawFunction, calculationResults, convergenceData, timers, lastSamples,
                 ruleVars>>

Next ==
  \/ SelectFunction
  \/ SetRawFunction
  \/ ProcessFunction
  \/ SetLowerLimit
  \/ SetUpperLimit
  \/ SetIntervals
  \/ ToggleMethod
  \/ Calculate
  \/ CalculateUnselected
  \/ TimerFires

Spec == Init /\ [][Next]_vars

\* ------------------------------------------------------------------------
\* Calls of processCustomFunction: one call per behaviour, on any of the inputs
\* ------------------------------------------------------------------------

\* expressions for the outcomes of a probe: a finite number, NaN, Infinity, a
\* ReferenceError
ProbeAtoms == {<<"1">>, <<"0", "/", "0">>, <<"1", "/", "0">>, <<"y">>}

\* the texts whose value at the k-th of testPoints is a chosen atom
Piecewise ==
  {<<"x", "<", "1", "?">> \o a1 \o <<":", "x", "<", "2", "?">> \o a2 \o <<":", "x", "<", "3", "?">> \o a3 \o <<":", "x", "<", "5", "?">> \o a4 \o <<":">> \o a5 :
     a1 \in ProbeAtoms, a2 \in ProbeAtoms, a3 \in ProbeAtoms, a4 \in ProbeAtoms,
     a5 \in ProbeAtoms}

RawFunctions == {<<>>, <<" ">>} \cup WrittenInputs \cup Piecewise

\* the calculator as it starts
CalculatorIdle ==
  /\ selectedFunction = "x^2"
  /\ customFunction = ""
  /\ lowerLimit = 0
  /\ upperLimit = 2
  /\ intervals = InitialIntervals
  /\ selectedMethods = <<"Trapezoidal Rule">>
  /\ rawFunction = ""
  /\ processedFunction = ""
  /\ functionError = ""
  /\ shouldCalculate = TRUE
  /\ calculationResults = <<>>
  /\ convergenceData = <<>>
  /\ timers = <<>>
  /\ steps = 0

NoProcessing == [rule |-> "", raw |-> <<>>]

InitProcess ==
  /\ CalculatorIdle
  /\ lastSamples = Null
  /\ args \in [raw : RawFunctions]
  /\ outcome = NoProcessing

CallProcessCustomFunction ==
  /\ outcome = NoProcessing
  /\ outcome' = [rule |-> "processCustomFunction", raw |-> args.raw]
                  @@ processCustomFunction(args.raw)
  /\ UNCHANGED <<calcVars, lastSamples, args>>

NextProcess == CallProcessCustomFunction

SpecProcess == InitProcess /\ [][NextProcess]_vars

\* ------------------------------------------------------------------------
\* Properties of processCustomFunction, over SpecProcess
\* ------------------------------------------------------------------------

\* processCustomFunction has returned, for a text that new Function accepts
CompiledCall ==
  /\ outcome.rule = "processCustomFunction"
  /\ ~IsBlank(outcome.raw)
  /\ Compiles(outcome.normalized)

\* the call succeeded: a processed text and no error
Succeeded == outcome.processed # Null /\ outcome.error = <<>>

\* the callable compiled from the rewritten text is finite at some test point
FiniteSomewhere ==
  \E p \in DOMAIN testPoints : testFunc(outcome.normalized, p) = "finite"

\* C14: for a text that compiles, processCustomFunction succeeds if and only if
\* the callable yields a finite number at one of the points 0.1, 1, 2, 3, 5 at
\* least; a point that throws or yields NaN or an infinity does not make it
\* fail, and each of the five points is evaluated whatever the earlier ones gave
C14_SucceedsIffSomeProbeFinite ==
  CompiledCall =>
    /\ Succeeded <=> FiniteSomewhere
    /\ ~Succeeded => outcome.processed = Null /\ outcome.error # <<>>
    /\ DOMAIN outcome.probes = DOMAIN testPoints
    /\ \A p \in DOMAIN testPoints : outcome.probes[p] = testFunc(outcome.normalized, p)

\* a call that succeeds on its last point after a throw, a NaN and an infinity
C14_Witness ==
  /\ CompiledCall
  /\ Succeeded
  /\ outcome.probes[1] = "throws"
  /\ outcome.probes[2] = "NaN"
  /\ outcome.probes[3] = "Infinity"
  /\ outcome.probes[4] = "throws"
  /\ outcome.probes[5] = "finite"

\* needle occurs in hay
Contains(hay, needle) ==
  \E i \in 1..(Len(hay) - Len(needle) + 1) : SubSeq(hay, i, i + Len(needle) - 1) = needle

\* the text compiled and no test point gave a finite number
FailedProbes == CompiledCall /\ ~FiniteSomewhere

\* C15: when the expression compiles and no probe yields a finite value, the
\* error processCustomFunction returns carries the rewritten text
C15_ErrorCarriesNormalizedText ==
  FailedProbes => Contains(outcome.error, outcome.normalized)

\* the error is then the fixed message, whatever the text
C15_ErrorIsFixedMessage == FailedProbes => outcome.error = NoValidPointsMsg

\* 1 divided by the function, as text for new Function
Reciprocal(raw) ==
  CASE raw = <<"c", "s", "c", "(", "x", ")">> -> <<"1", "/", "M", "a", "t", "h", ".", "s", "i", "n", "(", "x", ")">>
    [] raw = <<"s", "e", "c", "(", "x", ")">> -> <<"1", "/", "M", "a", "t", "h", ".", "c", "o", "s", "(", "x", ")">>
    [] raw = <<"c", "o", "t", "(", "x", ")">> -> <<"1", "/", "M", "a", "t", "h", ".", "t", "a", "n", "(", "x", ")">>

\* C16: for csc(x), sec(x) and cot(x) the rewritten text denotes 1 divided by
\* sin(x), cos(x), tan(x): it compiles, and evaluates as that quotient does
C16_ReciprocalTrigDenotesQuotient ==
  (outcome.rule = "processCustomFunction" /\ outcome.raw \in {<<"c", "s", "c", "(", "x", ")">>, <<"s", "e", "c", "(", "x", ")">>, <<"c", "o", "t", "(", "x", ")">>})
    => /\ Compiles(outcome.normalized)
       /\ \A p \in DOMAIN testPoints :
            testFunc(outcome.normalized, p) = testFunc(Reciprocal(outcome.raw), p)

\* what the rewriting makes of them: a product of x with the quotient of 1 and
\* the function itself, NaN at every point, so that the call fails
C16_ReciprocalTrigRejected ==
  (outcome.rule = "processCustomFunction" /\ outcome.raw \in {<<"c", "s", "c", "(", "x", ")">>, <<"s", "e", "c", "(", "x", ")">>, <<"c", "o", "t", "(", "x", ")">>})
    => /\ Contains(outcome.normalized, <<")", "*", "(", "x", ")">>)
       /\ \A p \in DOMAIN testPoints : outcome.probes[p] = "NaN"
       /\ outcome.processed = Null

\* C17: for e^x and e^(x) the rewritten text holds the call of the exponential
\* function, and e^ has not become a power: the replacement of the constant e
\* has not taken the e away before
C17_ExponentialShorthandBecomesCall ==
  (outcome.rule = "processCustomFunction" /\ outcome.raw \in {<<"e", "^", "x">>, <<"e", "^", "(", "x", ")">>})
    => /\ Contains(outcome.normalized, <<"M", "a", "t", "h", ".", "e", "x", "p">>)
       /\ ~Contains(outcome.normalized, <<"*", "*">>)

\* what the rewriting makes of them: a power of the constant
C17_ExponentialShorthandBecomesPower ==
  (outcome.rule = "processCustomFunction" /\ outcome.raw \in {<<"e", "^", "x">>, <<"e", "^", "(", "x", ")">>})
    => Contains(outcome.normalized, <<"M", "a", "t", "h", ".", "E", "*", "*">>)

\* the positions at which a word of text starts
WordStarts(text) ==
  {i \in 1..Len(text) : text[i] \in WordChars /\ (i = 1 \/ text[i - 1] \notin WordChars)}

\* the word of text that starts at position i
WordAt(text, i) ==
  SubSeq(text, i, First({j \in i..Len(text) : j = Len(text) \/ text[j + 1] \notin WordChars}))

\* the elements of a set of positions, in increasing order
Ordered(positions) ==
  [k \in 1..Cardinality(positions) |->
     CHOOSE i \in positions : Cardinality({j \in positions : j < i}) = k - 1]

\* the words of text at the positions given, in order
WordsAt(text, starts) == [k \in DOMAIN starts |-> WordAt(text, starts[k])]

\* the whole words ln and log of text, in the order they occur in
LogarithmWords(text) ==
  WordsAt(text, Ordered({i \in WordStarts(text) : WordAt(text, i) \in {<<"l", "n">>, <<"l", "o", "g">>}}))

\* Math.log10 if the Math.log at position i of text goes on with 10, else Math.log
LibraryCallAt(text, i) ==
  IF i + 9 <= Len(text) /\ SubSeq(text, i + 8, i + 9) = <<"1", "0">> THEN <<"M", "a", "t", "h", ".", "l", "o", "g", "1", "0">>
  ELSE <<"M", "a", "t", "h", ".", "l", "o", "g">>

\* the calls at the positions given, in order
LibraryCallsAt(text, starts) == [k \in DOMAIN starts |-> LibraryCallAt(text, starts[k])]

\* the logarithms of the library that text calls, in the order they occur in
LibraryCalls(text) ==
  LibraryCallsAt(text, Ordered({i \in 1..(Len(text) - 7) : SubSeq(text, i, i + 7) = <<"M", "a", "t", "h", ".", "l", "o", "g">>}))

\* the logarithm of the library a word stands for
LibraryCallFor(word) == IF word = <<"l", "n">> THEN <<"M", "a", "t", "h", ".", "l", "o", "g">> ELSE <<"M", "a", "t", "h", ".", "l", "o", "g", "1", "0">>

NotSpace(char) == char \notin WhiteSpace

\* the input in lower case without its white space
Folded(raw) == SelectSeq(toLowerCase(raw), NotSpace)

\* the rewritten text has Math.log at each word ln and Math.log10 at each word
\* log of the words given, and no placeholder
LogarithmsRewritten(words) ==
  /\ LibraryCalls(outcome.normalized) = [k \in DOMAIN words |-> LibraryCallFor(words[k])]
  /\ ~Contains(outcome.normalized, <<"N", "A", "T", "U", "R", "A", "L", "_", "L", "O", "G">>)

JavaScriptExamples ==
  { <<"M", "a", "t", "h", ".", "s", "i", "n", "(", "x", ")">>, <<"M", "a", "t", "h", ".", "s", "i", "n", "(", "x", ")", " ", "+", " ", "M", "a", "t", "h", ".", "c", "o", "s", "(", "x", ")">>, <<"M", "a", "t", "h", ".", "e", "x", "p", "(", "-", "x", "*", "x", ")">>, <<"x", "*", "x", " ", "+", " ", "2", "*", "x">>,
    <<"x", "*", "x", " ", "+", " ", "2", "*", "x", " ", "+", " ", "1">>, <<"x", "*", "M", "a", "t", "h", ".", "l", "o", "g", "(", "x", ")">> }

\* C19: processCustomFunction accepts the custom functions written in the
\* JavaScript syntax of the tutorial and the README: a processed text, no error
C19_JavaScriptSyntaxAccepted ==
  (outcome.rule = "processCustomFunction" /\ outcome.raw \in JavaScriptExamples)
    => Succeeded

\* the examples that are accepted are those that do not name Math
C19_AcceptedWithoutMath ==
  (outcome.rule = "processCustomFunction" /\ outcome.raw \in JavaScriptExamples)
    => (Succeeded <=> ~Contains(outcome.raw, <<"M", "a", "t", "h">>))

\* ------------------------------------------------------------------------
\* One instance of MonteCarloIntegration: calls of integrate and of
\* getVisualizationData, in any order
\* ------------------------------------------------------------------------

\* this.lastSamples || []
getVisualizationData(lastSamples0) == IF lastSamples0 = Null THEN <<>> ELSE lastSamples0

\* limits over which the raising callable raises at some draws and not at others
MonteCarloLimits == {<<0, 4>>, <<1, 3>>}

\* numbers of samples asked for
SampleCounts == {1, 2}

MonteCarloInputs ==
  {[func |-> func, a |-> limits[1], b |-> limits[2], n |-> n] :
     func \in {"x^2", "x>1?y:1"}, limits \in MonteCarloLimits, n \in SampleCounts}

NoArgs == [func |-> "", a |-> 0, b |-> 0, n |-> 0]

\* no call yet: `returned` is the arguments of the latest call of integrate that
\* returned, `data` what the latest call of getVisualizationData returned
NoInstanceCall ==
  [rule |-> "", err |-> "", value |-> NaN, evals |-> 0, data |-> Null, returned |-> Null]

InitMonteCarlo ==
  /\ CalculatorIdle
  /\ lastSamples = Null
  /\ args = NoArgs
  /\ outcome = NoInstanceCall

\* what integrate(input) leaves, r being its outcome
IntegrateOutcome(input, r) ==
  /\ args' = input
  /\ lastSamples' = r.samples
  /\ outcome' = [rule |-> "Monte Carlo", err |-> r.err, value |-> r.value,
                 evals |-> r.evals, data |-> outcome.data,
                 returned |-> IF r.err = "" THEN input ELSE outcome.returned]

CallIntegrate ==
  /\ steps < MaxSteps
  /\ steps' = steps + 1
  /\ \E input \in MonteCarloInputs, seed \in Seeds :
       IntegrateOutcome(input,
                        MonteCarloIntegrate(input.func, Num(input.a), Num(input.b),
                                            input.n, seed, 0, lastSamples))
  /\ UNCHANGED <<selectedFunction, customFunction, lowerLimit, upperLimit, intervals,
                 selectedMethods, rawFunction, processedFunction, functionError,
                 shouldCalculate, calculationResults, convergenceData, timers>>

CallGetVisualizationData ==
  /\ outcome' = [outcome EXCEPT !.rule = "getVisualizationData",
                                !.data = getVisualizationData(lastSamples)]
  /\ UNCHANGED <<calcVars, lastSamples, args>>

NextMonteCarlo ==
  \/ CallIntegrate
  \/ CallGetVisualizationData

SpecMonteCarlo == InitMonteCarlo /\ [][NextMonteCarlo]_vars

\* ------------------------------------------------------------------------
\* Properties of the sample cache, over SpecMonteCarlo
\* ------------------------------------------------------------------------

\* samples are those of one call of integrate(call): n of them, each with
\* a <= x < b and y = func(x)
SamplesOfCall(samples, call) ==
  /\ Len(samples) = call.n
  /\ \A i \in 1..Len(samples) :
       /\ ~Less(samples[i].x, Num(call.a))
       /\ Less(samples[i].x, Num(call.b))
       /\ ~Throws(call.func, samples[i].x)
       /\ samples[i].y = Apply(call.func, samples[i].x)

\* getVisualizationData has just returned the cache
ReturnsCache ==
  outcome.rule = "getVisualizationData" => outcome.data = getVisualizationData(lastSamples)

\* C20: after any sequence of calls of integrate on one instance the cache holds
\* exactly the samples of the most recent call, n of them with a <= x < b and
\* y = f(x), nothing of earlier calls; getVisualizationData returns the cache,
\* which is empty before the first call
C20_CacheHoldsMostRecentCall ==
  /\ steps = 0 => getVisualizationData(lastSamples) = <<>>
  /\ steps > 0 => SamplesOfCall(lastSamples, args)
  /\ ReturnsCache

\* the same for the most recent call that returned
C20_CacheHoldsMostRecentReturnedCall ==
  /\ outcome.returned = Null => getVisualizationData(lastSamples) = <<>>
  /\ outcome.returned # Null => SamplesOfCall(lastSamples, outcome.returned)
  /\ ReturnsCache

\* ------------------------------------------------------------------------
\* Derivative-bound estimators and the error estimates built on them
\* (TrapezoidalRule, SimpsonsRule1By3)
\* ------------------------------------------------------------------------

\* Math.max of two numbers
Max(x, y) == IF IsNaN(x) \/ IsNaN(y) THEN NaN ELSE IF Less(x, y) THEN y ELSE x

\* one scan of a grid: the bound found and the passes of the loop body made
Scanned(max, passes) == [max |-> max, passes |-> passes]

\* func raises inside the try block of estimateSecondDerivative at x
SecondDifferenceThrows(func, x, h) ==
  \/ Throws(func, Add(x, h))
  \/ Throws(func, x)
  \/ Throws(func, Sub(x, h))

\* Math.abs((func(x + h) - 2 * func(x) + func(x - h)) / (h * h))
SecondDifference(func, x, h) ==
  Abs(Div(Add(Sub(Apply(func, Add(x, h)), Mul(Num(2), Apply(func, x))),
              Apply(func, Sub(x, h))),
          Mul(h, h)))

\* the try block without `if (isFinite(secondDeriv))`
SecondDerivativeStepUnchecked(func, x, h, max) ==
  IF SecondDifferenceThrows(func, x, h) THEN max
  ELSE Max(max, SecondDifference(func, x, h))

\* body of the loop of estimateSecondDerivative: the new maxSecondDeriv
SecondDerivativeStep(func, x, h, max) ==
  IF SecondDifferenceThrows(func, x, h) THEN max
  ELSE LET secondDeriv == SecondDifference(func, x, h)
       IN IF isFinite(secondDeriv) THEN Max(max, secondDeriv) ELSE max

\* for (let x = ...; x < b - h; x += h) { ... }, entered with x and maxSecondDeriv
RECURSIVE SecondDerivativeLoop(_, _, _, _, _, _)
SecondDerivativeLoop(func, x, b, h, max, passes) ==
  IF Less(x, Sub(b, h))
  THEN SecondDerivativeLoop(func, Add(x, h), b, h,
                            SecondDerivativeStep(func, x, h, max), passes + 1)
  ELSE Scanned(max, passes)

\* the scan of estimateSecondDerivative over a grid of `grid` steps
SecondDerivativeScan(func, a, b, grid) ==
  LET h == Div(Sub(b, a), Num(grid))
  IN SecondDerivativeLoop(func, Add(a, h), b, h, Zero, 0)

\* TrapezoidalRule.estimateSecondDerivative(func, a, b)
estimateSecondDerivative(func, a, b) == SecondDerivativeScan(func, a, b, GridSteps).max

\* SimpsonsRule1By3.estimateSecondDerivative(func, a, b): its own, coarser grid
Simpson13EstimateSecondDerivative(func, a, b) ==
  SecondDerivativeScan(func, a, b, CoarseGridSteps).max

\* func raises inside the try block of estimateFourthDerivative at x
FourthDifferenceThrows(func, x, h) ==
  \E k \in -2..2 : Throws(func, Add(x, Mul(Num(k), h)))

\* Math.abs((func(x + 2*h) - 4*func(x + h) + 6*func(x) - 4*func(x - h)
\*           + func(x - 2*h)) / Math.pow(h, 4))
FourthDifference(func, x, h) ==
  LET f(k) == Apply(func, Add(x, Mul(Num(k), h)))
  IN Abs(Div(Add(Sub(Add(Sub(f(2), Mul(Num(4), f(1))), Mul(Num(6), f(0))),
                     Mul(Num(4), f(-1))),
                 f(-2)),
             Pow(h, 4)))

\* body of the loop of estimateFourthDerivative: the new maxFourthDeriv
FourthDerivativeStep(func, x, h, max) ==
  IF FourthDifferenceThrows(func, x, h) THEN max
  ELSE LET fourthDeriv == FourthDifference(func, x, h)
       IN IF isFinite(fourthDeriv) THEN Max(max, fourthDeriv) ELSE max

\* for (let x = a + 2*h; x < b - 2*h; x += h) { ... }
RECURSIVE FourthDerivativeLoop(_, _, _, _, _, _)
FourthDerivativeLoop(func, x, b, h, max, passes) ==
  IF Less(x, Sub(b, Mul(Num(2), h)))
  THEN FourthDerivativeLoop(func, Add(x, h), b, h,
                            FourthDerivativeStep(func, x, h, max), passes + 1)
  ELSE Scanned(max, passes)

FourthDerivativeScan(func, a, b) ==
  LET h == Div(Sub(b, a), Num(GridSteps))
  IN FourthDerivativeLoop(func, Add(a, Mul(Num(2), h)), b, h, Zero, 0)

\* SimpsonsRule1By3.estimateFourthDerivative(func, a, b)
estimateFourthDerivative(func, a, b) == FourthDerivativeScan(func, a, b).max

\* TrapezoidalRule.getErrorEstimate(func, a, b, n)
TrapezoidalGetErrorEstimate(func, a, b, n) ==
  LET secondDerivApprox == estimateSecondDerivative(func, a, b)
  IN Abs(Div(Mul(Pow(Sub(b, a), 3), secondDerivApprox), Num(12 * n * n)))

\* the odd branch of SimpsonsRule1By3.getErrorEstimate
Simpson13HybridErrorEstimate(func, a, b, n) ==
  LET h == Div(Sub(b, a), Num(n))
      splitPoint == Sub(b, h)
      simpsonError == Div(Mul(estimateFourthDerivative(func, a, splitPoint),
                              Pow(Sub(splitPoint, a), 5)),
                          Mul(Num(180), Pow(Num(n - 1), 4)))
      trapError == Div(Mul(Simpson13EstimateSecondDerivative(func, splitPoint, b),
                           Pow(h, 2)),
                       Num(12))
  IN Add(Abs(simpsonError), Abs(trapError))

\* SimpsonsRule1By3.getErrorEstimate(func, a, b, n)
Simpson13GetErrorEstimate(func, a, b, n) ==
  IF n % 2 = 0
  THEN LET fourthDerivApprox == estimateFourthDerivative(func, a, b)
       IN Abs(Div(Mul(Pow(Sub(b, a), 5), fourthDerivApprox),
                  Mul(Num(180), Pow(Num(n), 4))))
  ELSE Simpson13HybridErrorEstimate(func, a, b, n)

\* ------------------------------------------------------------------------
\* SpecEstimates: the estimators and error estimates of one TrapezoidalRule
\* and one SimpsonsRule1By3, called with arguments drawn from EstimateInputs
\* ------------------------------------------------------------------------

EstimateCounts == {1, 2, 3, 4}

EstimateInputs ==
  {t \in [func : PredefinedKeys \cup CustomTexts, a : RuleLimits, b : RuleLimits,
          n : EstimateCounts] : t.a < t.b}

\* no call yet: `passes` counts the passes of the scanning loops of a call
\* the callables getErrorEstimate is called with: the error estimates of 1/x
\* leave the 32-bit integers the fractions are kept in
BoundedFunctions == (PredefinedKeys \cup CustomTexts) \ {"1/x"}

NoEstimate == [rule |-> "", value |-> NaN, passes |-> 0]

Estimated(rule, value, passes) == [rule |-> rule, value |-> value, passes |-> passes]

InitEstimates ==
  /\ CalculatorIdle
  /\ lastSamples = Null
  /\ args \in EstimateInputs
  /\ outcome = NoEstimate

CallEstimateSecondDerivative ==
  LET scan == SecondDerivativeScan(args.func, Num(args.a), Num(args.b), GridSteps)
  IN /\ outcome' = Estimated("estimateSecondDerivative",
                             estimateSecondDerivative(args.func, Num(args.a), Num(args.b)),
                             scan.passes)
     /\ UNCHANGED <<calcVars, lastSamples, args>>

CallEstimateFourthDerivative ==
  LET scan == FourthDerivativeScan(args.func, Num(args.a), Num(args.b))
  IN /\ outcome' = Estimated("estimateFourthDerivative",
                             estimateFourthDerivative(args.func, Num(args.a), Num(args.b)),
                             scan.passes)
     /\ UNCHANGED <<calcVars, lastSamples, args>>

CallTrapezoidalGetErrorEstimate ==
  LET scan == SecondDerivativeScan(args.func, Num(args.a), Num(args.b), GridSteps)
  IN /\ args.func \in BoundedFunctions
     /\ outcome' = Estimated("TrapezoidalRule.getErrorEstimate",
                             TrapezoidalGetErrorEstimate(args.func, Num(args.a),
                                                         Num(args.b), args.n),
                             scan.passes)
     /\ UNCHANGED <<calcVars, lastSamples, args>>

\* the passes of the scans SimpsonsRule1By3.getErrorEstimate runs
Simpson13EstimatePasses(func, a, b, n) ==
  IF n % 2 = 0 THEN FourthDerivativeScan(func, a, b).passes
  ELSE LET splitPoint == Sub(b, Div(Sub(b, a), Num(n)))
       IN FourthDerivativeScan(func, a, splitPoint).passes
          + SecondDerivativeScan(func, splitPoint, b, CoarseGridSteps).passes

CallSimpson13GetErrorEstimate ==
  /\ args.func \in BoundedFunctions
  /\ outcome' = Estimated("SimpsonsRule1By3.getErrorEstimate",
                          Simpson13GetErrorEstimate(args.func, Num(args.a),
                                                    Num(args.b), args.n),
                          Simpson13EstimatePasses(args.func, Num(args.a),
                                                  Num(args.b), args.n))
  /\ UNCHANGED <<calcVars, lastSamples, args>>

NextEstimates ==
  \/ CallEstimateSecondDerivative
  \/ CallEstimateFourthDerivative
  \/ CallTrapezoidalGetErrorEstimate
  \/ CallSimpson13GetErrorEstimate

SpecEstimates == InitEstimates /\ [][NextEstimates]_vars

\* the grid points the loop of the last estimator call visits: every a + k*h
\* below the loop's limit, from its first point on
GridPoints ==
  LET h == Div(Sub(ArgB, ArgA), Num(GridSteps))
      margin == IF outcome.rule = "estimateSecondDerivative" THEN 1 ELSE 2
  IN {Node(ArgA, k, h) : k \in {j \in margin..GridSteps :
        Less(Node(ArgA, j, h), Sub(ArgB, Mul(Num(margin), h)))}}

\* the try block of the last estimator call raises at x
SampleThrows(x) ==
  LET h == Div(Sub(ArgB, ArgA), Num(GridSteps))
  IN IF outcome.rule = "estimateSecondDerivative"
     THEN SecondDifferenceThrows(args.func, x, h)
     ELSE FourthDifferenceThrows(args.func, x, h)

\* the finite-difference magnitude the last estimator call computes at x
Magnitude(x) ==
  LET h == Div(Sub(ArgB, ArgA), Num(GridSteps))
  IN IF outcome.rule = "estimateSecondDerivative"
     THEN SecondDifference(args.func, x, h)
     ELSE FourthDifference(args.func, x, h)

\* the finite magnitudes among the samples of the last estimator call
FiniteMagnitudes ==
  {Magnitude(x) : x \in {y \in GridPoints : ~SampleThrows(y) /\ isFinite(Magnitude(y))}}

EstimatorCalled == outcome.rule \in {"estimateSecondDerivative", "estimateFourthDerivative"}

\* C21: an estimator returns the largest finite sampled magnitude, skipping the
\* samples where func raises or the magnitude is not finite; it returns 0 when no
\* sample is finite and for a constant function, and always a finite number >= 0
C21_LargestFiniteMagnitude ==
  EstimatorCalled =>
    /\ isFinite(outcome.value) /\ ~Less(outcome.value, Zero)
    /\ FiniteMagnitudes = {} => outcome.value = Zero
    /\ FiniteMagnitudes # {} =>
         /\ outcome.value \in FiniteMagnitudes
         /\ \A v \in FiniteMagnitudes : ~Less(outcome.value, v)
    /\ args.func = "3" => outcome.value = Zero

\* an estimator skipped a sample and returned the positive magnitude of another
C21_Witness ==
  /\ EstimatorCalled
  /\ \E x \in GridPoints : SampleThrows(x) \/ ~isFinite(Magnitude(x))
  /\ Less(Zero, outcome.value)

\* ------------------------------------------------------------------------
\* Properties of the calculator's inputs, over Spec
\* ------------------------------------------------------------------------

\* C22: lowerLimit < upperLimit in every reachable state, and an edit of a limit
\* that would break the order changes neither limit nor shouldCalculate
C22_LimitsStayOrdered ==
  /\ [](lowerLimit < upperLimit)
  /\ [][\A value \in LimitChoices :
         /\ (LowerLimitChange(value) /\ ~(value < upperLimit))
              => UNCHANGED <<lowerLimit, upperLimit, shouldCalculate>>
         /\ (UpperLimitChange(value) /\ ~(value > lowerLimit))
              => UNCHANGED <<lowerLimit, upperLimit, shouldCalculate>>]_vars

\* an accepted edit has moved the lower limit to where an offered upper limit
\* is no longer above it
C22_Witness ==
  /\ lowerLimit # 0
  /\ \E value \in LimitChoices : ~(value > lowerLimit)
  /\ steps < MaxSteps

\* C23: performCalculations called with no rule selected computes nothing:
\* calculationResults, convergenceData and shouldCalculate stay as they are and
\* no convergence sweep is scheduled
C23_EmptySelectionRejected ==
  [][CalculateUnselected
       => UNCHANGED <<calculationResults, convergenceData, shouldCalculate, timers,
                      lastSamples>>]_vars

\* results of an earlier calculation are shown, every rule has been deselected
\* since, and the handler has been called again
C23_Witness ==
  /\ Len(selectedMethods) = 0
  /\ Len(calculationResults) > 0
  /\ shouldCalculate
  /\ steps = MaxSteps

\* ------------------------------------------------------------------------
\* Properties of the error estimates, over SpecEstimates
\* ------------------------------------------------------------------------

\* the Simpson bound over [a, splitPoint] with n - 1 intervals
SimpsonPortionBound(func, a, splitPoint, n) ==
  Abs(Div(Mul(Pow(Sub(splitPoint, a), 5), estimateFourthDerivative(func, a, splitPoint)),
          Mul(Num(180), Pow(Num(n - 1), 4))))

\* C24: for odd n, SimpsonsRule1By3.getErrorEstimate returns the Simpson bound
\* over [a, b - h] with n - 1 intervals plus the bound TrapezoidalRule gives for
\* the one remaining panel [b - h, b]
C24_HybridAddsTrapezoidalBound ==
  (outcome.rule = "SimpsonsRule1By3.getErrorEstimate" /\ args.n % 2 = 1) =>
    LET splitPoint == Sub(ArgB, ArgH)
    IN outcome.value =
         Add(SimpsonPortionBound(args.func, ArgA, splitPoint, args.n),
             TrapezoidalGetErrorEstimate(args.func, splitPoint, ArgB, 1))

\* ------------------------------------------------------------------------
\* Properties of the custom function, over Spec
\* ------------------------------------------------------------------------

\* the texts processCustomFunction rejects, the blank ones included
RejectedTexts == {raw \in RawChoices \cup {""} : Processed[raw].processed = Null}

\* the callable the next calculation integrates
ActiveFunction == currentFunc(selectedFunction, customFunction, functionError)

C25_SelectedFunctionBecomesActive ==
  [][(SelectFunction /\ selectedFunction' # selectedFunction)
       => /\ ActiveFunction' = selectedFunction'
          /\ ExactValue(selectedFunction', customFunction', lowerLimit', upperLimit')
               = exact(selectedFunction', Num(lowerLimit'), Num(upperLimit'))]_vars

\* ------------------------------------------------------------------------
\* The Monte Carlo cache during a calculation, over Spec
\* ------------------------------------------------------------------------

\* the Monte Carlo records of a list of results that carry a value
MonteCarloRecords(results) ==
  {results[i] : i \in {j \in 1..Len(results) :
     results[j].method = "Monte Carlo" /\ results[j].calculationError = ""}}

\* C26: the error estimate of a Monte Carlo record is computed from the samples
\* of the integrate call that gave the record's value, n of them: a click runs both
\* calls with no sweep between them, whatever timers are pending
C26_EstimateReadsOwnSamples ==
  [][(Len(timers') > Len(timers) /\ Calculate) =>
       \A record \in MonteCarloRecords(calculationResults') :
         /\ lastSamples' # Null
         /\ Len(lastSamples') = intervals
         /\ record.value = MonteCarloValue(lastSamples', Num(lowerLimit), Num(upperLimit),
                                           intervals)
         /\ record.errorEstimate =
              MonteCarloErrorEstimate(lastSamples', Num(lowerLimit), Num(upperLimit),
                                      intervals)]_vars

\* a Monte Carlo record is shown and a sweep has since overwritten the samples
\* of the instance
C26_Witness ==
  /\ MonteCarloRecords(calculationResults) # {}
  /\ lastSamples # Null
  /\ Len(lastSamples) = ConvergenceLast

\* ------------------------------------------------------------------------
\* Work done by one call, over SpecRules
\* ------------------------------------------------------------------------

\* the evaluations of func a call of integrate that returns may make
EvaluationsAllowed(rule, n) ==
  CASE rule = "Trapezoidal Rule" -> {n + 1}
    [] rule = "Midpoint Rule" -> {n}
    [] rule = "Monte Carlo" -> {n}
    [] rule = "Simpson's 1/3" -> 0..(n + 2)
    [] rule = "Simpson's 3/8" -> 0..(n + 2)

\* C27: a call of integrate ends after at most n + 2 evaluations of func
\* (Trapezoidal n + 1, Midpoint n, Monte Carlo n), and the loops of the derivative
\* estimators end within the steps of their grid
C27_WorkBounded ==
  /\ outcome.rule # "" =>
       /\ outcome.evals <= args.n + 2
       /\ outcome.err = "" => outcome.evals \in EvaluationsAllowed(outcome.rule, args.n)
  /\ SecondDerivativeScan(args.func, ArgA, ArgB, GridSteps).passes <= GridSteps
  /\ SecondDerivativeScan(args.func, ArgA, ArgB, CoarseGridSteps).passes <= CoarseGridSteps
  /\ FourthDerivativeScan(args.func, ArgA, ArgB).passes <= GridSteps

\* ------------------------------------------------------------------------
\* The results shown and the recalculation flag, over Spec
\* ------------------------------------------------------------------------

\* what the calculation reads
CalculationInputs ==
  <<selectedFunction, customFunction, functionError, lowerLimit, upperLimit, intervals,
    selectedMethods>>

\* what performCalculations can yield in the current state
Yields ==
  {Results(selectedMethods, ActiveFunction,
           ExactValue(selectedFunction, customFunction, lowerLimit, upperLimit),
           lowerLimit, upperLimit, intervals, seed, Null) : seed \in Seeds}

\* C28: while shouldCalculate is false, calculationResults is what
\* performCalculations yields for the current function, limits, interval count and
\* rules; every change of these sets shouldCalculate, and only a calculation
\* clears it
C28_ResultsCurrentUnlessFlagged ==
  /\ [](~shouldCalculate => calculationResults \in Yields)
  /\ [][CalculationInputs' # CalculationInputs => shouldCalculate']_vars
  /\ [][(shouldCalculate /\ ~shouldCalculate') => (Len(timers') > Len(timers) /\ Calculate)]_vars

\* a parsed custom function has been integrated and the results are current
C28_Witness ==
  /\ ~shouldCalculate
  /\ customFunction # ""
  /\ Len(calculationResults) > 0

====
